---- MODULE Spec2Model ----
(***************************************************************************)
(* Verification model of the community-api ingestion pipeline:             *)
(*   - EventCategoryStore / EventCategoryAssignmentService (categories),   *)
(*   - EventSeriesStore.attachEvent (series occurrences),                  *)
(*   - ingestSource (three-phase ingest run).                              *)
(* The document store is modelled as functions from document ids to        *)
(* documents; a transaction is a read step followed by a commit step that  *)
(* is retried when the document changed in between.                        *)
(***************************************************************************)
EXTENDS Integers, Sequences, FiniteSets, TLC

(***************************************************************************)
(* Bounds of the model                                                     *)
(***************************************************************************)
MaxAssigns == 4
MaxAttaches == 3
MaxNow == 48
TickStep == 12
NumPayloads == 2
MaxRuns == 2
MaxFaults == 1
MaxFeedAssigns == 3
MaxInteractions == 2
MaxPages == 27
\* Tag occurrences recorded in one run of the model.
MaxRecords == 3
\* Longest span of a chunked ingest, in days, and latest day it starts on.
MaxSpanDays == 4
MaxStartDay == 1

(***************************************************************************)
(* Program constants                                                       *)
(***************************************************************************)
CHANGE_LOG_LIMIT == 25
\* Hours kept by sanitizeOccurrences (1000 * 60 * 60 * 24 ms); the model's
\* clock counts hours.
KEEP_HOURS == 24
\* `limit` of mergeOccurrences
OCCURRENCE_LIMIT == 20

NoDoc == [exists |-> FALSE]
\* Absent values: of a record-valued field, and of a string-valued field.
None == [none |-> TRUE]
NoSeries == "none"

Min(a, b) == IF a < b THEN a ELSE b
Max(a, b) == IF a > b THEN a ELSE b

\* Array.prototype.slice(-n): the last n elements of a sequence.
SliceLast(seq, n) ==
  IF Len(seq) <= n THEN seq ELSE SubSeq(seq, Len(seq) - n + 1, Len(seq))

\* Array.prototype.slice(0, n): the first n elements of a sequence.
SliceFirst(seq, n) ==
  IF Len(seq) <= n THEN seq ELSE SubSeq(seq, 1, n)

VARIABLES
  categories,    \* eventCategories collection: category id -> document
  seriesCat,     \* eventSeries documents, fields categoryId / categoryName
  assign,        \* assignSeries calls in flight: process -> local state
  assignCount,   \* number of assignSeries calls started so far
  series,        \* eventSeries collection: series id -> occurrence fields
  now,           \* wall clock, in hours
  attach,        \* attachEvent calls in flight: process -> local state
  attachCount,   \* number of attachEvent calls started so far
  committedOcc,  \* history: event id -> occurrence of its last committed attach
  cutByLimit,    \* history: <<series id, event id>> cut off by the occurrence
                 \* limit since the event was last attached
  conflicts,     \* history: number of failed attachEvent commits
  source,        \* the adapter of the ingested source and its raw payloads
  events,        \* events collection: event id -> stored fields
  proposals,     \* occurrenceCount of the tag proposal
  ingest,        \* the ingestSource run: phase, position, prepared entries, counters
  hist,          \* history of the current run, per payload, and of earlier runs
  userPinnedEvents, \* userPinnedEvents/{u}: entries, series and updatedAt of user u
  bundleStates,  \* users/{u}/categoryBundles: category id -> state document
  interactions,  \* interactions collection: the persisted documents
  request,       \* the API request being handled and the last response
  client,        \* history: what the caller of the API has observed
  fetch,         \* the fetch of a source connector: pages and attempts so far
  tagProposals,  \* tagProposals collection: slug -> document
  record,        \* recordOccurrence calls in flight: process -> local state
  save,          \* saveEvent calls in flight: process -> local state
  call           \* a call of a pure function: its arguments and its result

catVars == <<categories, seriesCat, assign, assignCount>>
seriesVars == <<series, now, attach, attachCount, committedOcc, cutByLimit, conflicts>>
ingestVars == <<source, events, proposals, ingest, hist>>
apiVars == <<userPinnedEvents, bundleStates, interactions, request, client>>
workVars == <<fetch, tagProposals, record, save, call>>
ingestFrame == <<assign, assignCount, attach, attachCount, committedOcc, cutByLimit, conflicts,
                 userPinnedEvents, bundleStates, interactions, request, client,
                 fetch, tagProposals, record, save, call>>
vars == <<categories, seriesCat, assign, assignCount,
          series, now, attach, attachCount, committedOcc, cutByLimit, conflicts,
          source, events, proposals, ingest, hist,
          userPinnedEvents, bundleStates, interactions, request, client,
          fetch, tagProposals, record, save, call>>

(***************************************************************************)
(* Category names.  A name is a base spelling plus the two attributes the  *)
(* program's comparisons can tell apart: letter case and accents.          *)
(***************************************************************************)
HostId == "host:h1"
SeriesIds == {"s1", "s2", "s3"}
AssignProcs == {"p1", "p2"}

NameYoga == [base |-> "yoga", cap |-> FALSE, acc |-> FALSE]
NameYogaCap == [base |-> "yoga", cap |-> TRUE, acc |-> FALSE]
NameArts == [base |-> "arts", cap |-> FALSE, acc |-> FALSE]
ClassifierNames == {NameYoga, NameYogaCap, NameArts}
ClassifierActions == {"use-existing", "create-new"}

\* String.prototype.toLowerCase: removes case, keeps accents.
toLowerCase(name) == [name EXCEPT !.cap = FALSE]

\* a.localeCompare(b, undefined, {sensitivity: 'accent'}) === 0:
\* base letters and accents must agree, case is ignored.
localeCompareAccent(a, b) == a.base = b.base /\ a.acc = b.acc

\* sha1 of `${hostId}:${name.trim().toLowerCase()}`, taken as injective.
buildCategoryId(hostId, name) == [host |-> hostId, key |-> toLowerCase(name)]

CategoryIds == {buildCategoryId(HostId, n) : n \in ClassifierNames}

(***************************************************************************)
(* EventCategoryStore                                                      *)
(***************************************************************************)
\* Drops malformed entries (no numeric version); keeps the others as is.
sanitizeChangeLog(value) == SelectSeq(value, LAMBDA entry : entry.version # 0)

\* Mutant of createCategoryDoc: the creation writes no changeLog entry.
createCategoryDoc_NoLog(name, seriesId) ==
  [exists |-> TRUE,
   name |-> name,
   seriesIds |-> {seriesId},
   version |-> 1,
   changeLog |-> <<>>]

\* The document written by createCategory (docRef.set(..., {merge: true})
\* with every field of the document given: the stored fields are replaced).
createCategoryDoc(name, seriesId) ==
  [exists |-> TRUE,
   name |-> name,
   seriesIds |-> {seriesId},
   version |-> 1,
   changeLog |-> <<[version |-> 1, addedSeriesIds |-> {seriesId}]>>]

\* Mutant of addSeriesUpdate: the changeLog is not cut to its limit.
addSeriesUpdate_NoTrim(data, seriesId) ==
  LET alreadyInCategory == seriesId \in data.seriesIds
      nextVersion == data.version + 1
      changeLogEntry == [version |-> nextVersion, addedSeriesIds |-> {seriesId}]
  IN IF alreadyInCategory
       THEN [data EXCEPT !.seriesIds = @ \cup {seriesId}]
       ELSE [data EXCEPT !.seriesIds = @ \cup {seriesId},
                         !.version = nextVersion,
                         !.changeLog = Append(sanitizeChangeLog(data.changeLog), changeLogEntry)]

\* Mutant of addSeriesUpdate: re-adding a member bumps the version too.
addSeriesUpdate_AlwaysBumps(data, seriesId) ==
  LET nextVersion == data.version + 1
      changeLogEntry == [version |-> nextVersion, addedSeriesIds |-> {seriesId}]
      trimmedChangeLog ==
        SliceLast(Append(sanitizeChangeLog(data.changeLog), changeLogEntry),
                  CHANGE_LOG_LIMIT)
  IN [data EXCEPT !.seriesIds = @ \cup {seriesId},
                  !.version = nextVersion,
                  !.changeLog = trimmedChangeLog]

\* Mutant of addSeriesUpdate: the version is written without the changeLog.
addSeriesUpdate_VersionOnly(data, seriesId) ==
  IF seriesId \in data.seriesIds
    THEN data
    ELSE [data EXCEPT !.seriesIds = @ \cup {seriesId}, !.version = @ + 1]

\* The document after the update computed by addSeriesToCategory's
\* transaction body from the snapshot `data`.
addSeriesUpdate(data, seriesId) ==
  LET alreadyInCategory == seriesId \in data.seriesIds
      nextVersion == data.version + 1
      changeLogEntry == [version |-> nextVersion, addedSeriesIds |-> {seriesId}]
      trimmedChangeLog ==
        SliceLast(Append(sanitizeChangeLog(data.changeLog), changeLogEntry),
                  CHANGE_LOG_LIMIT)
  IN IF alreadyInCategory
       THEN [data EXCEPT !.seriesIds = @ \cup {seriesId}]
       ELSE [data EXCEPT !.seriesIds = @ \cup {seriesId},
                         !.version = nextVersion,
                         !.changeLog = trimmedChangeLog]

\* removeSeriesFromCategory: docRef.update with arrayRemove; the update of
\* a missing document fails and the failure is swallowed.
removeSeriesDoc(data, seriesId) ==
  IF data.exists THEN [data EXCEPT !.seriesIds = @ \ {seriesId}] ELSE data

\* Mutant of txCanCommit: a transaction that commits over any change.
txCanCommit_Always(current, snapshot) == TRUE

\* A transaction commits only if the document it read is still the
\* document in the store; otherwise its body is run again.
txCanCommit(current, snapshot) == current = snapshot

\* listByHost + find: the category of the host whose name matches.
listedMatches(cats, name) ==
  {id \in DOMAIN cats : cats[id].exists /\ localeCompareAccent(cats[id].name, name)}

(***************************************************************************)
(* EventCategoryAssignmentService.assignSeries, one step per await         *)
(***************************************************************************)
IdleAssign ==
  [pc |-> "idle", seriesId |-> NoSeries, existingCategoryId |-> None,
   categoryId |-> None, categoryName |-> None, snapshot |-> NoDoc]

\* seriesRef.get() and the early return for an already categorised series.
AssignStart(p, s, force) ==
  /\ assign[p].pc = "idle"
  /\ assignCount < MaxAssigns
  /\ assignCount' = assignCount + 1
  /\ IF seriesCat[s] # None /\ ~force
       THEN assign' = assign
       ELSE assign' = [assign EXCEPT ![p] =
              [IdleAssign EXCEPT !.pc = "list", !.seriesId = s,
                 !.existingCategoryId =
                    IF seriesCat[s] = None THEN None ELSE seriesCat[s].categoryId]]
  /\ UNCHANGED <<categories, seriesCat>>
  /\ UNCHANGED seriesVars
  /\ UNCHANGED ingestVars
  /\ UNCHANGED workVars
  /\ UNCHANGED apiVars

\* store.listByHost, classifier.classify and the name match.
AssignList(p) ==
  /\ assign[p].pc = "list"
  /\ \E name \in ClassifierNames, action \in ClassifierActions :
       LET matches == listedMatches(categories, name)
           existingMatch == IF matches = {} THEN None ELSE CHOOSE id \in matches : TRUE
           categoryId == IF existingMatch = None
                           THEN buildCategoryId(HostId, name) ELSE existingMatch
           categoryName == IF existingMatch = None
                             THEN name ELSE categories[existingMatch].name
       IN assign' = [assign EXCEPT ![p].categoryId = categoryId,
                                   ![p].categoryName = categoryName,
                                   ![p].pc = IF existingMatch = None /\ action = "create-new"
                                               THEN "create" ELSE "txget"]
  /\ UNCHANGED <<categories, seriesCat, assignCount>>
  /\ UNCHANGED seriesVars
  /\ UNCHANGED ingestVars
  /\ UNCHANGED workVars
  /\ UNCHANGED apiVars

\* store.createCategory
AssignCreate(p) ==
  /\ assign[p].pc = "create"
  /\ categories' = [categories EXCEPT ![assign[p].categoryId] =
                      createCategoryDoc(assign[p].categoryName, assign[p].seriesId)]
  /\ assign' = [assign EXCEPT ![p].pc = "txget"]
  /\ UNCHANGED <<seriesCat, assignCount>>
  /\ UNCHANGED seriesVars
  /\ UNCHANGED ingestVars
  /\ UNCHANGED workVars
  /\ UNCHANGED apiVars

\* store.addSeriesToCategory, transaction body: tx.get; a missing category
\* makes assignSeries throw.
AddTxGet(p) ==
  /\ assign[p].pc = "txget"
  /\ IF categories[assign[p].categoryId].exists
       THEN assign' = [assign EXCEPT ![p].snapshot = categories[assign[p].categoryId],
                                     ![p].pc = "txcommit"]
       ELSE assign' = [assign EXCEPT ![p] = IdleAssign]
  /\ UNCHANGED <<categories, seriesCat, assignCount>>
  /\ UNCHANGED seriesVars
  /\ UNCHANGED ingestVars
  /\ UNCHANGED workVars
  /\ UNCHANGED apiVars

\* store.addSeriesToCategory, commit of tx.update, or retry of the body.
AddTxCommit(p) ==
  /\ assign[p].pc = "txcommit"
  /\ LET id == assign[p].categoryId
         moved == assign[p].existingCategoryId # None /\ assign[p].existingCategoryId # id
     IN IF txCanCommit(categories[id], assign[p].snapshot)
          THEN /\ categories' = [categories EXCEPT ![id] =
                                   addSeriesUpdate(assign[p].snapshot, assign[p].seriesId)]
               /\ assign' = [assign EXCEPT ![p].snapshot = NoDoc,
                                           ![p].pc = IF moved THEN "remove" ELSE "setseries"]
          ELSE /\ categories' = categories
               /\ assign' = [assign EXCEPT ![p].snapshot = NoDoc, ![p].pc = "txget"]
  /\ UNCHANGED <<seriesCat, assignCount>>
  /\ UNCHANGED seriesVars
  /\ UNCHANGED ingestVars
  /\ UNCHANGED workVars
  /\ UNCHANGED apiVars

\* store.removeSeriesFromCategory(existingCategoryId, seriesId)
AssignRemove(p) ==
  /\ assign[p].pc = "remove"
  /\ categories' = [categories EXCEPT ![assign[p].existingCategoryId] =
                      removeSeriesDoc(@, assign[p].seriesId)]
  /\ assign' = [assign EXCEPT ![p].pc = "setseries"]
  /\ UNCHANGED <<seriesCat, assignCount>>
  /\ UNCHANGED seriesVars
  /\ UNCHANGED ingestVars
  /\ UNCHANGED workVars
  /\ UNCHANGED apiVars

\* seriesRef.set({categoryId, categoryName, ...}, {merge: true}) and return
AssignSetSeries(p) ==
  /\ assign[p].pc = "setseries"
  /\ seriesCat' = [seriesCat EXCEPT ![assign[p].seriesId] =
                     [categoryId |-> assign[p].categoryId,
                      categoryName |-> assign[p].categoryName]]
  /\ assign' = [assign EXCEPT ![p] = IdleAssign]
  /\ UNCHANGED <<categories, assignCount>>
  /\ UNCHANGED seriesVars
  /\ UNCHANGED ingestVars
  /\ UNCHANGED workVars
  /\ UNCHANGED apiVars

(***************************************************************************)
(* The series store (EventSeriesStore).  A series document is modelled by  *)
(* the fields attachEvent computes from the stored occurrences; an         *)
(* occurrence by its eventId and startTime.  Event ids are numbered in     *)
(* their lexical order.  attachEvent runs in a Firestore transaction: the  *)
(* body reads the document and computes the write, the commit applies it   *)
(* when the document is still the one that was read and otherwise the body *)
(* is run again.                                                           *)
(***************************************************************************)
EventIds == {1, 2}
NoStartTime == -1
StartTimes == {0, KEEP_HOURS + TickStep, 2 * KEEP_HOURS + TickStep}
AttachProcs == {"a1", "a2"}
AttachTargets == {"s1"}

buildOccurrence(event) ==
  IF event.startTime = NoStartTime
    THEN None
    ELSE [eventId |-> event.id, startTime |-> event.startTime]

sanitizeOccurrences(occurrences, nowHours) ==
  LET keepThreshold == nowHours - KEEP_HOURS
  IN SelectSeq(occurrences, LAMBDA occ : ~(occ.startTime < keepThreshold))

\* Array.prototype.sort with the comparator a.startTime - b.startTime: a
\* stable sort, elements of equal startTime keep their relative order.
RECURSIVE sortByStartTime(_)
sortByStartTime(seq) ==
  IF Len(seq) = 0 THEN seq
  ELSE LET last == seq[Len(seq)]
           head == sortByStartTime(SubSeq(seq, 1, Len(seq) - 1))
           notAfter == SelectSeq(head, LAMBDA o : o.startTime <= last.startTime)
           after == SelectSeq(head, LAMBDA o : o.startTime > last.startTime)
       IN notAfter \o <<last>> \o after

\* Mutant of mergeUpdated: the stored occurrence of the event is kept.
mergeUpdated_KeepsOld(existing, next) ==
  sortByStartTime(Append(existing, next))

\* `updated` of mergeOccurrences, after the sort and before the slice
mergeUpdated(existing, next) ==
  LET filtered == SelectSeq(existing, LAMBDA item : item.eventId # next.eventId)
  IN sortByStartTime(Append(filtered, next))

\* Mutant of mergeOccurrences: the merged list is not cut at the limit.
mergeOccurrences_NoLimit(existing, next) == mergeUpdated(existing, next)

mergeOccurrences(existing, next) ==
  SliceFirst(mergeUpdated(existing, next), OCCURRENCE_LIMIT)

\* The document written by the transaction body of attachEvent.
attachEventDoc(snapshot, event, nowHours) ==
  LET occurrence == buildOccurrence(event)
  IN IF ~snapshot.exists
       THEN [exists |-> TRUE,
             upcomingOccurrences |-> IF occurrence = None THEN <<>> ELSE <<occurrence>>,
             createdAt |-> nowHours,
             updatedAt |-> nowHours]
       ELSE LET existingOccurrences ==
                  sanitizeOccurrences(snapshot.upcomingOccurrences, nowHours)
                filteredOccurrences ==
                  IF occurrence = None THEN existingOccurrences
                  ELSE mergeOccurrences(existingOccurrences, occurrence)
            IN [exists |-> TRUE,
                upcomingOccurrences |-> filteredOccurrences,
                createdAt |-> snapshot.createdAt,
                updatedAt |-> nowHours]

\* The event ids that the slice of mergeOccurrences cuts off in this write.
cutOffByLimit(snapshot, event, nowHours) ==
  IF ~snapshot.exists \/ buildOccurrence(event) = None THEN {}
  ELSE LET updated == mergeUpdated(sanitizeOccurrences(snapshot.upcomingOccurrences, nowHours),
                                   buildOccurrence(event))
       IN {updated[i].eventId : i \in (OCCURRENCE_LIMIT + 1)..Len(updated)}

NoEvent == [id |-> 0, startTime |-> NoStartTime]
IdleAttach ==
  [pc |-> "idle", seriesId |-> NoSeries, event |-> NoEvent,
   snapshot |-> NoDoc, txNow |-> 0, created |-> FALSE]

\* attachEvent is called and the transaction body runs for the first time.
AttachEvent(p, s, event) ==
  /\ attach[p].pc = "idle"
  /\ attachCount < MaxAttaches
  /\ attachCount' = attachCount + 1
  /\ attach' = [attach EXCEPT ![p] =
       [pc |-> "commit", seriesId |-> s, event |-> event,
        snapshot |-> series[s], txNow |-> now, created |-> ~series[s].exists]]
  /\ UNCHANGED <<series, now, committedOcc, cutByLimit, conflicts>>
  /\ UNCHANGED catVars
  /\ UNCHANGED ingestVars
  /\ UNCHANGED workVars
  /\ UNCHANGED apiVars

\* The transaction body runs again after a failed commit; `created` is a
\* variable of attachEvent, outside the body, and keeps its value.
AttachTxRetry(p) ==
  /\ attach[p].pc = "retry"
  /\ attach' = [attach EXCEPT ![p].pc = "commit",
                              ![p].snapshot = series[attach[p].seriesId],
                              ![p].txNow = now,
                              ![p].created = attach[p].created
                                               \/ ~series[attach[p].seriesId].exists]
  /\ UNCHANGED <<series, now, attachCount, committedOcc, cutByLimit, conflicts>>
  /\ UNCHANGED catVars
  /\ UNCHANGED ingestVars
  /\ UNCHANGED workVars
  /\ UNCHANGED apiVars

\* The commit of the transaction: the write is applied, or the document has
\* changed since it was read and the body is retried.
AttachTxCommit(p) ==
  /\ attach[p].pc = "commit"
  /\ LET s == attach[p].seriesId
         a == attach[p]
         occurrence == buildOccurrence(a.event)
         cut == cutOffByLimit(a.snapshot, a.event, a.txNow)
     IN IF txCanCommit(series[s], a.snapshot)
          THEN /\ series' = [series EXCEPT ![s] = attachEventDoc(a.snapshot, a.event, a.txNow)]
               /\ attach' = [attach EXCEPT ![p] = IdleAttach]
               /\ committedOcc' =
                    IF occurrence = None THEN committedOcc
                    ELSE [committedOcc EXCEPT ![s][a.event.id] = occurrence]
               /\ cutByLimit' =
                    IF occurrence = None THEN cutByLimit
                    ELSE (cutByLimit \ {<<s, a.event.id>>}) \cup {<<s, e>> : e \in cut}
               /\ UNCHANGED conflicts
          ELSE /\ attach' = [attach EXCEPT ![p].pc = "retry"]
               /\ conflicts' = conflicts + 1
               /\ UNCHANGED <<series, committedOcc, cutByLimit>>
  /\ UNCHANGED <<now, attachCount>>
  /\ UNCHANGED catVars
  /\ UNCHANGED ingestVars
  /\ UNCHANGED workVars
  /\ UNCHANGED apiVars

\* Time passes.
Tick ==
  /\ now + TickStep <= MaxNow
  /\ now' = now + TickStep
  /\ UNCHANGED <<series, attach, attachCount, committedOcc, cutByLimit, conflicts>>
  /\ UNCHANGED catVars
  /\ UNCHANGED ingestVars
  /\ UNCHANGED workVars
  /\ UNCHANGED apiVars

(***************************************************************************)
(* ingestSource (workers/googleCalendarIngest.ts) with the event store.    *)
(* A timestamp string is modelled by the instant it denotes and its form:  *)
(* "iso" is the form Date.prototype.toISOString produces, "plain" another  *)
(* parseable rendering of the same instant, "invalid" a string that        *)
(* new Date() cannot parse.  A stored Timestamp is the instant alone.      *)
(***************************************************************************)
Adapters == {"google-calendar", "tribe-events"}
InvalidDate == -1
UpdatedInstant == 0
IsoString(instant) == [instant |-> instant, form |-> "iso"]
UpdatedValues ==
  {None, IsoString(UpdatedInstant), [instant |-> UpdatedInstant, form |-> "plain"],
   [instant |-> InvalidDate, form |-> "invalid"]}
IngestTitles == {"s1"}
PayloadIdx == 1..NumPayloads

\* The raw payloads a source can deliver: `malformed` stands for a raw
\* record on which the normalizer throws.
Payloads ==
  {p \in [id : EventIds, title : IngestTitles, updated : UpdatedValues,
          malformed : BOOLEAN] : p.malformed => p.updated = None}

\* The sources: an adapter and its payloads, the first one about event 1.
\* The Tribe normalizer reads every parseable modified date as the "plain"
\* one and every unparseable one as none, so those stand for the others.
Sources ==
  {src \in [adapter : Adapters, payloads : [PayloadIdx -> Payloads]] :
     /\ src.payloads[1].id = 1
     /\ src.adapter = "tribe-events" =>
          \A i \in PayloadIdx :
            src.payloads[i].updated \in {None, [instant |-> UpdatedInstant, form |-> "plain"]}}

\* The classifiers are called with temperature 0 on the title and the
\* description: what they answer is a function of the event.  The tag
\* classifier finds tags for event 1 and none for the other events; the
\* category classifier proposes a new category of one name.
classifierTags(eventId) == eventId = 1
IngestCategoryName == NameYoga
IngestCategoryAction == "create-new"

\* new Date(value).getTime()
dateOf(value) == value.instant

\* toIsoString of the Tribe normalizer: undefined for no or an invalid date
toIsoString(value) ==
  IF value = None \/ dateOf(value) = InvalidDate THEN None ELSE IsoString(dateOf(value))

\* lastUpdatedAt of the normalized event
normalizedUpdatedAt(adapter, payload, fetchedAt) ==
  IF adapter = "google-calendar"
    THEN IF payload.updated = None THEN fetchedAt ELSE payload.updated
    ELSE IF toIsoString(payload.updated) = None THEN fetchedAt
         ELSE toIsoString(payload.updated)

\* adapter.normalize(payload).event
normalize(adapter, payload, fetchedAt) ==
  [id |-> payload.id,
   title |-> payload.title,
   startTime |-> 2 * KEEP_HOURS + TickStep,
   lastFetchedAt |-> fetchedAt,
   lastUpdatedAt |-> normalizedUpdatedAt(adapter, payload, fetchedAt)]

\* store.getEvent: the snapshot, or null for a missing document
getEvent(eventId) == IF events[eventId].exists THEN events[eventId] ELSE None

getLastUpdatedTimestamp(snapshot) ==
  IF snapshot = None THEN None ELSE IsoString(snapshot.lastUpdatedAt)

reuseClassification(forceRefresh, existingSnapshot, incomingUpdated) ==
  LET existingUpdated == getLastUpdatedTimestamp(existingSnapshot)
  IN /\ ~forceRefresh
     /\ existingSnapshot # None
     /\ incomingUpdated # None
     /\ existingUpdated # None
     /\ existingUpdated = incomingUpdated

\* Timestamp.fromDate(new Date(value)) throws on an invalid date.
timestampThrows(value) == dateOf(value) = InvalidDate

\* The document after store.touchEvent(ref, updatedAt)
touchEventDoc(data, updatedAt, nowHours) ==
  [data EXCEPT !.lastFetchedAt = dateOf(updatedAt), !.lastSeenAt = nowHours]

\* The document written by store.saveEvent
saveEventDoc(event, seriesId, tagged, vector) ==
  [exists |-> TRUE,
   lastUpdatedAt |-> dateOf(event.lastUpdatedAt),
   lastFetchedAt |-> dateOf(event.lastFetchedAt),
   lastSeenAt |-> InvalidDate,
   seriesId |-> seriesId,
   tagged |-> tagged,
   vector |-> vector]

\* Mutant of saveEventResult: every save reports a creation.
saveEventResult_Created(existingSnapshot, eventId) == "created"

\* The result of store.saveEvent: decided from the snapshot passed in, or
\* from a read of its own when none is passed.
saveEventResult(existingSnapshot, eventId) ==
  LET snapshot == IF existingSnapshot # None THEN existingSnapshot ELSE events[eventId]
  IN IF snapshot.exists THEN "updated" ELSE "created"

\* assignSeries run without interleaving: the category documents and the
\* category fields of the series after the call.  A missing category makes
\* addSeriesToCategory throw and leaves what createCategory wrote.
assignSeries(cats, sc, s, force, name, action) ==
  IF sc[s] # None /\ ~force THEN [categories |-> cats, seriesCat |-> sc]
  ELSE
    LET matches == listedMatches(cats, name)
        existingMatch == IF matches = {} THEN None ELSE CHOOSE id \in matches : TRUE
        categoryId == IF existingMatch = None THEN buildCategoryId(HostId, name)
                      ELSE existingMatch
        categoryName == IF existingMatch = None THEN name ELSE cats[existingMatch].name
        created == IF existingMatch = None /\ action = "create-new"
                     THEN [cats EXCEPT ![categoryId] = createCategoryDoc(categoryName, s)]
                     ELSE cats
        added == [created EXCEPT ![categoryId] = addSeriesUpdate(@, s)]
        existingCategoryId == IF sc[s] = None THEN None ELSE sc[s].categoryId
        removed == IF existingCategoryId # None /\ existingCategoryId # categoryId
                     THEN [added EXCEPT ![existingCategoryId] = removeSeriesDoc(@, s)]
                     ELSE added
    IN IF ~created[categoryId].exists
         THEN [categories |-> created, seriesCat |-> sc]
         ELSE [categories |-> removed,
               seriesCat |-> [sc EXCEPT ![s] = [categoryId |-> categoryId,
                                                categoryName |-> categoryName]]]

\* The counters and the per-payload history of a run that has not started.
IdleIngest ==
  [no |-> 0, phase |-> "idle", forceRefresh |-> FALSE, idx |-> 1, fetchedAt |-> 0,
   prepared |-> [i \in PayloadIdx |-> None],
   created |-> 0, updated |-> 0, skipped |-> 0]

FreshHist ==
  [raised |-> [i \in PayloadIdx |-> {}],
   counted |-> [i \in PayloadIdx |-> <<>>],
   mutations |-> [i \in PayloadIdx |-> {}],
   firstRun |-> None,
   thrown |-> [i \in PayloadIdx |-> {}],
   faults |-> 0]

NoEvents == [e \in EventIds |-> NoDoc]

\* The value of the ingest variables in the specifications that run no
\* ingest.
IdleIngestVars ==
  /\ source = [adapter |-> "google-calendar",
               payloads |-> [i \in PayloadIdx |->
                               [id |-> 1, title |-> "s1",
                                updated |-> IsoString(UpdatedInstant), malformed |-> FALSE]]]
  /\ events = NoEvents
  /\ proposals = 0
  /\ ingest = IdleIngest
  /\ hist = FreshHist

(***************************************************************************)
(* The steps of ingestSource.  An exception of a collaborator (a store     *)
(* call, the tag classifier, the embedding provider) is an input of the    *)
(* step, `fault`; at most MaxFaults of them are raised over all runs, the  *)
(* tag classifier failing again in phase 3 for an entry for which it       *)
(* failed in phase 1 not counted anew.                                     *)
(***************************************************************************)
NoFault == "none"

MayRaise(fault) == fault # NoFault => hist.faults < MaxFaults

\* What a step adds to the exceptions raised for an entry in phase 0 or 3.
Thrown(fault) == IF fault = NoFault THEN {} ELSE {fault}

FaultsAfter(fault) == IF fault = NoFault THEN hist.faults ELSE hist.faults + 1

\* The position after entry idx of a loop: the next entry, or the first
\* entry of the next phase.
Advance(nextPhase) ==
  IF ingest.idx < NumPayloads
    THEN [ingest EXCEPT !.idx = @ + 1]
    ELSE [ingest EXCEPT !.idx = 1, !.phase = nextPhase]

\* Mutant of Skip: the exception of one entry ends the loop.
Skip_EndsLoop(nextPhase, fault, phaseName) ==
  /\ ingest' = [ingest EXCEPT !.idx = 1, !.phase = nextPhase, !.skipped = @ + 1]
  /\ hist' = [hist EXCEPT !.raised[ingest.idx] = @ \cup {phaseName},
                          !.counted[ingest.idx] = Append(@, "skipped"),
                          !.thrown[ingest.idx] = @ \cup Thrown(fault),
                          !.faults = FaultsAfter(fault)]

\* The catch blocks that count the entry as skipped.
Skip(nextPhase, fault, phaseName) ==
  /\ ingest' = [Advance(nextPhase) EXCEPT !.skipped = @ + 1]
  /\ hist' = [hist EXCEPT !.raised[ingest.idx] = @ \cup {phaseName},
                          !.counted[ingest.idx] = Append(@, "skipped"),
                          !.thrown[ingest.idx] = @ \cup Thrown(fault),
                          !.faults = FaultsAfter(fault)]

\* ingestSource is called: adapter.fetchRawEvents stamps the payloads with
\* the time of the fetch.
IngestStart(forceRefresh) ==
  /\ ingest.phase = "idle"
  /\ ingest.no < MaxRuns
  /\ now' = now + TickStep
  /\ ingest' = [IdleIngest EXCEPT !.no = ingest.no + 1, !.phase = "prepare",
                                  !.forceRefresh = forceRefresh,
                                  !.fetchedAt = now + TickStep]
  /\ hist' = [FreshHist EXCEPT !.firstRun = hist.firstRun, !.faults = hist.faults]
  /\ UNCHANGED <<source, events, proposals, series, categories, seriesCat>>
  /\ UNCHANGED ingestFrame

\* Between two runs the source gives the event of payload i another title.
RetitleEvent(i, title) ==
  /\ ingest.phase = "idle"
  /\ source.payloads[i].title # title
  /\ source' = [source EXCEPT !.payloads[i].title = title]
  /\ UNCHANGED <<events, proposals, ingest, hist, now, series, categories, seriesCat>>
  /\ UNCHANGED ingestFrame

\* Phase 0, one payload: normalize, read the stored event, decide on reuse.
Prepare(fault) ==
  /\ ingest.phase = "prepare"
  /\ fault \in {NoFault, "getEvent"}
  /\ MayRaise(fault)
  /\ LET payload == source.payloads[ingest.idx]
         normalized == normalize(source.adapter, payload, IsoString(ingest.fetchedAt))
         existingSnapshot == getEvent(normalized.id)
         reuse == reuseClassification(ingest.forceRefresh, existingSnapshot,
                                      normalized.lastUpdatedAt)
         entry == [normalized |-> normalized,
                   existingSnapshot |-> existingSnapshot,
                   reuse |-> reuse,
                   classified |-> FALSE,
                   tagsNonEmpty |-> FALSE,
                   vector |-> IF reuse THEN existingSnapshot.vector ELSE "none"]
     IN IF payload.malformed
          THEN fault = NoFault /\ Skip("tag", fault, "normalization")
          ELSE IF fault = "getEvent"
            THEN Skip("tag", fault, "normalization")
            ELSE /\ ingest' = [Advance("tag") EXCEPT !.prepared[ingest.idx] = entry]
                 /\ hist' = hist
  /\ UNCHANGED <<source, events, proposals, now, series, categories, seriesCat>>
  /\ UNCHANGED ingestFrame

\* Phase 1, one prepared entry: the tag classifier; its exception is logged.
Tag(fault) ==
  /\ ingest.phase = "tag"
  /\ fault \in {NoFault, "classify"}
  /\ MayRaise(fault)
  /\ LET entry == ingest.prepared[ingest.idx]
     IN IF entry = None \/ entry.reuse
          THEN /\ fault = NoFault
               /\ ingest' = Advance("embed")
               /\ hist' = hist
          ELSE IF fault = "classify"
            THEN /\ ingest' = Advance("embed")
                 /\ hist' = [hist EXCEPT !.raised[ingest.idx] = @ \cup {"tagging"},
                                         !.faults = FaultsAfter(fault)]
            ELSE /\ ingest' = [Advance("embed") EXCEPT
                                 !.prepared[ingest.idx].classified = TRUE,
                                 !.prepared[ingest.idx].tagsNonEmpty =
                                    classifierTags(entry.normalized.id),
                                 !.prepared[ingest.idx].vector = "classifier"]
                 /\ hist' = hist
  /\ UNCHANGED <<source, events, proposals, now, series, categories, seriesCat>>
  /\ UNCHANGED ingestFrame

\* The entries whose enriched text is embedded in phase 2.
textEntriesForEmbedding ==
  {i \in PayloadIdx : /\ ingest.prepared[i] # None
                      /\ ~ingest.prepared[i].reuse
                      /\ ingest.prepared[i].tagsNonEmpty}

\* Phase 2: one embedMany call for the batch; its exception is logged.
Embed(fault) ==
  /\ ingest.phase = "embed"
  /\ fault \in {NoFault, "embedMany"}
  /\ MayRaise(fault)
  /\ IF textEntriesForEmbedding = {}
       THEN /\ fault = NoFault
            /\ ingest' = [ingest EXCEPT !.phase = "persist"]
            /\ hist' = hist
       ELSE IF fault = "embedMany"
         THEN /\ ingest' = [ingest EXCEPT !.phase = "persist"]
              /\ hist' = [hist EXCEPT
                    !.raised = [i \in PayloadIdx |->
                                  IF i \in textEntriesForEmbedding
                                    THEN hist.raised[i] \cup {"embedding"}
                                    ELSE hist.raised[i]],
                    !.faults = FaultsAfter(fault)]
         ELSE /\ ingest' = [ingest EXCEPT
                    !.phase = "persist",
                    !.prepared = [i \in PayloadIdx |->
                                    IF i \in textEntriesForEmbedding
                                      THEN [ingest.prepared[i] EXCEPT !.vector = "enriched"]
                                      ELSE ingest.prepared[i]]]
              /\ hist' = hist
  /\ UNCHANGED <<source, events, proposals, now, series, categories, seriesCat>>
  /\ UNCHANGED ingestFrame

\* Mutant of escapesPersist: a failed series attach or category assignment
\* is not caught.
escapesPersist_SeriesToo(fault) == fault \in {"saveEvent", "attachEvent", "assignSeries"}

\* After the classification, the exceptions of phase 3 that no inner catch
\* block takes: those of saveEvent.
escapesPersist(fault) == fault = "saveEvent"

\* The outcome of phase 3 for an entry that is not reused, as far as the
\* stores are concerned: the classification, the tag proposals, the series
\* and its category, in the order of the code.
persistPlan(entry, fault) ==
  LET n == entry.normalized
      s == n.title
      tagged == IF entry.classified THEN entry.tagsNonEmpty ELSE classifierTags(n.id)
      attached == fault # "attachEvent"
      createdSeries == ~series[s].exists
      assigned == attached /\ fault # "assignSeries"
      assignment ==
        IF assigned
          THEN assignSeries(categories, seriesCat, s,
                            ingest.forceRefresh \/ createdSeries,
                            IngestCategoryName, IngestCategoryAction)
          ELSE [categories |-> categories, seriesCat |-> seriesCat]
  IN [classifyThrows |-> ~entry.classified /\ fault = "classify",
      tagged |-> tagged,
      vector |-> IF entry.classified THEN entry.vector ELSE "classifier",
      proposed |-> tagged /\ fault # "processEvent",
      attached |-> attached,
      seriesDoc |-> IF attached
                      THEN attachEventDoc(series[s], [id |-> n.id, startTime |-> n.startTime], now)
                      ELSE series[s],
      categories |-> assignment.categories,
      seriesCat |-> assignment.seriesCat,
      saveThrows |-> escapesPersist(fault) \/ timestampThrows(n.lastUpdatedAt)
                       \/ timestampThrows(n.lastFetchedAt)]

\* Phase 3, one prepared entry.
Persist(fault) ==
  /\ ingest.phase = "persist"
  /\ fault = "classify" \/ MayRaise(fault)
  /\ LET i == ingest.idx
         entry == ingest.prepared[i]
     IN IF entry = None
          THEN /\ fault = NoFault
               /\ ingest' = Advance("finish")
               /\ UNCHANGED <<hist, events, proposals, series, categories, seriesCat>>
          ELSE IF entry.reuse /\ entry.existingSnapshot # None /\ ~ingest.forceRefresh
            THEN /\ fault \in {NoFault, "touchEvent"}
                 /\ IF fault = "touchEvent" \/ timestampThrows(entry.normalized.lastUpdatedAt)
                      THEN /\ Skip("finish", fault, "persistence")
                           /\ UNCHANGED events
                      ELSE /\ events' = [events EXCEPT ![entry.normalized.id] =
                                 touchEventDoc(@, entry.normalized.lastUpdatedAt, now)]
                           /\ ingest' = [Advance("finish") EXCEPT !.updated = @ + 1]
                           /\ hist' = [hist EXCEPT !.counted[i] = Append(@, "updated"),
                                                   !.mutations[i] = @ \cup {"touchEvent"}]
                 /\ UNCHANGED <<proposals, series, categories, seriesCat>>
            ELSE LET n == entry.normalized
                     plan == persistPlan(entry, fault)
                     result == saveEventResult(entry.existingSnapshot, n.id)
                     mutated ==
                       (IF plan.proposed THEN {"proposal"} ELSE {})
                       \cup (IF plan.attached THEN {"series"} ELSE {})
                       \cup (IF plan.categories # categories THEN {"category"} ELSE {})
                       \cup (IF plan.saveThrows THEN {} ELSE {"saveEvent"})
                 IN /\ fault \in {NoFault, "classify", "processEvent", "attachEvent",
                                  "assignSeries", "saveEvent"}
                    /\ fault = "classify" => ~entry.classified
                    /\ fault = "processEvent" => plan.tagged
                    /\ IF plan.classifyThrows
                         THEN /\ ingest' = [Advance("finish") EXCEPT !.skipped = @ + 1]
                              /\ hist' = [hist EXCEPT
                                   !.raised[i] = @ \cup {"persistence"},
                                   !.counted[i] = Append(@, "skipped"),
                                   !.thrown[i] = @ \cup Thrown(fault)]
                              /\ UNCHANGED <<events, proposals, series, categories, seriesCat>>
                         ELSE /\ proposals' = IF plan.proposed THEN proposals + 1 ELSE proposals
                              /\ series' = [series EXCEPT ![n.title] = plan.seriesDoc]
                              /\ categories' = plan.categories
                              /\ seriesCat' = plan.seriesCat
                              /\ IF plan.saveThrows
                                   THEN /\ ingest' = [Advance("finish") EXCEPT !.skipped = @ + 1]
                                        /\ hist' = [hist EXCEPT
                                             !.raised[i] =
                                                IF fault \in {NoFault, "saveEvent"}
                                                  THEN @ \cup {"persistence"}
                                                  ELSE @ \cup {"persistence", "persistence-logged"},
                                             !.counted[i] = Append(@, "skipped"),
                                             !.mutations[i] = @ \cup mutated,
                                             !.thrown[i] = @ \cup Thrown(fault),
                                             !.faults = FaultsAfter(fault)]
                                        /\ UNCHANGED events
                                   ELSE /\ events' = [events EXCEPT ![n.id] =
                                              saveEventDoc(n, IF plan.attached THEN n.title
                                                                               ELSE NoSeries,
                                                           plan.tagged, plan.vector)]
                                        /\ ingest' = [Advance("finish") EXCEPT
                                              !.created = IF result = "created" THEN @ + 1 ELSE @,
                                              !.updated = IF result = "updated" THEN @ + 1 ELSE @]
                                        /\ hist' = [hist EXCEPT
                                             !.raised[i] =
                                                IF fault = NoFault THEN @
                                                ELSE @ \cup {"persistence-logged"},
                                             !.counted[i] = Append(@, result),
                                             !.mutations[i] = @ \cup mutated,
                                             !.thrown[i] = @ \cup Thrown(fault),
                                             !.faults = FaultsAfter(fault)]
  /\ UNCHANGED <<source, now>>
  /\ UNCHANGED ingestFrame

\* fetched of the statistics: rawEvents.length
fetched == Cardinality(DOMAIN source.payloads)

\* ingestSource returns its statistics.
IngestFinish ==
  /\ ingest.phase = "finish"
  /\ ingest' = [ingest EXCEPT !.phase = "idle"]
  /\ hist' = [hist EXCEPT !.firstRun =
                IF ingest.no = 1
                  THEN [created |-> ingest.created, updated |-> ingest.updated,
                        skipped |-> ingest.skipped]
                  ELSE @]
  /\ UNCHANGED <<source, events, proposals, now, series, categories, seriesCat>>
  /\ UNCHANGED ingestFrame

FaultPoints ==
  {"getEvent", "classify", "embedMany", "touchEvent", "processEvent", "attachEvent",
   "assignSeries", "saveEvent"}

(***************************************************************************)
(* Pinned events of one user (services/pinnedEventsService.ts).  The       *)
(* events collection the pins are taken from does not change here: events  *)
(* 1, 2 and 3 exist, 1 and 2 start at the same time, event 4 does not      *)
(* exist.  Event ids are numbered in their lexical order.  A page token is *)
(* modelled by the text it decodes to from base64: its kind and the number *)
(* it holds.                                                               *)
(***************************************************************************)
DEFAULT_PAGE_SIZE == 10
MAX_PAGE_SIZE == 30
PinEventIds == {1, 2, 3, 4}
StoredEventIds == {1, 2, 3}
PinSeriesIds == <<"s1">>
NoTimestamp == -1
InvalidPageToken == -1

\* startTime of the stored events
storedStartTime(eventId) == IF eventId = 3 THEN 3 * TickStep ELSE TickStep

\* The eventSeries document whose occurrences a pinned series expands to.
PinnableSeriesDoc ==
  [exists |-> TRUE,
   upcomingOccurrences |-> <<[eventId |-> 2, startTime |-> storedStartTime(2)],
                             [eventId |-> 3, startTime |-> storedStartTime(3)]>>,
   createdAt |-> 0, updatedAt |-> 0]

NoPins ==
  [entries |-> [e \in PinEventIds |-> NoDoc],
   series |-> [s \in SeriesIds |-> NoDoc],
   updatedAt |-> NoTimestamp]

\* The decoded texts of page tokens: "7", "-7", "abc", "{...}", "7abc",
\* "7.5" and the empty text.
PageTokens ==
  [kind : {"digits", "negative", "trailing", "fraction"}, n : {1}]
    \cup {[kind |-> "digits", n |-> 0]}
    \cup [kind : {"garbage", "legacy", "blank"}, n : {0}]

encodePageToken(offset) == [kind |-> "digits", n |-> offset]

\* parsePageToken: the offset, or InvalidPageToken when it throws
\* 'Invalid page token'.  Number.parseInt reads the leading digits.
parsePageToken(token) ==
  IF token = None THEN 0
  ELSE IF token.kind = "legacy" THEN 0
  ELSE IF token.kind \in {"digits", "trailing", "fraction"} THEN token.n
  ELSE InvalidPageToken

\* pageSize 0 stands for an absent pageSize
clampPageSize(pageSize) ==
  IF pageSize = 0 THEN DEFAULT_PAGE_SIZE
  ELSE Min(Max(pageSize, 1), MAX_PAGE_SIZE)

\* The events collection as the pinned events read it: the stored events
\* with their startTime.
PinnableEventDocs ==
  [e \in PinEventIds |->
     IF e \in StoredEventIds THEN [exists |-> TRUE, startTime |-> storedStartTime(e)]
     ELSE NoDoc]

\* fetchEventMetadata: the startTime of events/{eventId}; None when it
\* throws (no such event)
fetchEventMetadata(eventId) ==
  IF eventId \in DOMAIN events /\ events[eventId].exists
    THEN [startTime |-> events[eventId].startTime]
    ELSE None

\* Mutant of setPinnedEventStatus: unpinning keeps the entry.
setPinnedEventStatus_KeepsEntry(store, eventId, pinned, nowHours) ==
  IF pinned /\ fetchEventMetadata(eventId) = None THEN store
  ELSE IF pinned
    THEN [store EXCEPT !.entries[eventId] =
                         [exists |-> TRUE, eventId |-> eventId,
                          eventStartTime |-> fetchEventMetadata(eventId).startTime,
                          pinnedAt |-> nowHours],
                       !.updatedAt = nowHours]
    ELSE [store EXCEPT !.updatedAt = nowHours]

\* userPinnedEvents/{u} after setPinnedEventStatus(u, eventId, pinned).  A
\* failure to read the event is caught and nothing is written.
setPinnedEventStatus(store, eventId, pinned, nowHours) ==
  IF pinned /\ fetchEventMetadata(eventId) = None THEN store
  ELSE IF pinned
    THEN [store EXCEPT !.entries[eventId] =
                         [exists |-> TRUE, eventId |-> eventId,
                          eventStartTime |-> fetchEventMetadata(eventId).startTime,
                          pinnedAt |-> nowHours],
                       !.updatedAt = nowHours]
    ELSE [store EXCEPT !.entries[eventId] = NoDoc, !.updatedAt = nowHours]

\* userPinnedEvents/{u} after setPinnedSeriesStatus(u, seriesId, pinned)
setPinnedSeriesStatus(store, seriesDocs, seriesId, pinned, nowHours) ==
  IF pinned /\ ~seriesDocs[seriesId].exists THEN store
  ELSE IF pinned
    THEN [store EXCEPT !.series[seriesId] = [exists |-> TRUE, pinnedAt |-> nowHours],
                       !.updatedAt = nowHours]
    ELSE [store EXCEPT !.series[seriesId] = NoDoc, !.updatedAt = nowHours]

mapPinnedEvent(doc) ==
  [eventId |-> doc.eventId, startTime |-> doc.eventStartTime,
   pinnedAt |-> doc.pinnedAt, derived |-> FALSE]

\* The entries query: eventStartTime within the window, ordered by
\* eventStartTime and eventId.
RECURSIVE orderedEntries(_)
orderedEntries(docs) ==
  IF docs = {} THEN <<>>
  ELSE LET first == CHOOSE d \in docs : \A o \in docs :
                      \/ d.eventStartTime < o.eventStartTime
                      \/ d.eventStartTime = o.eventStartTime /\ d.eventId <= o.eventId
       IN <<first>> \o orderedEntries(docs \ {first})

queryEntries(store, start, end) ==
  orderedEntries({store.entries[e] : e \in {x \in PinEventIds :
                     /\ store.entries[x].exists
                     /\ store.entries[x].eventStartTime >= start
                     /\ store.entries[x].eventStartTime < end}})

\* The entries one pinned series expands to.
seriesOccurrenceEntries(store, seriesDocs, seriesId, start, end, existingEventIds) ==
  IF ~seriesDocs[seriesId].exists THEN <<>>
  ELSE LET kept == SelectSeq(seriesDocs[seriesId].upcomingOccurrences,
                             LAMBDA occ : /\ occ.eventId \notin existingEventIds
                                          /\ ~(occ.startTime < start \/ occ.startTime >= end))
       IN [i \in 1..Len(kept) |->
             [eventId |-> kept[i].eventId, startTime |-> kept[i].startTime,
              pinnedAt |-> store.series[seriesId].pinnedAt, derived |-> TRUE]]

RECURSIVE expandSeriesEntries(_, _, _, _, _, _)
expandSeriesEntries(seriesIds, store, seriesDocs, start, end, existingEventIds) ==
  IF Len(seriesIds) = 0 THEN <<>>
  ELSE seriesOccurrenceEntries(store, seriesDocs, Head(seriesIds), start, end, existingEventIds)
         \o expandSeriesEntries(Tail(seriesIds), store, seriesDocs, start, end, existingEventIds)

\* Mutant of compareEntries: pinnedAt ascending.
compareEntries_PinnedAscending(a, b) ==
  IF a.startTime # b.startTime THEN a.startTime - b.startTime
  ELSE IF a.pinnedAt # b.pinnedAt THEN a.pinnedAt - b.pinnedAt
  ELSE a.eventId - b.eventId

\* compareEntries: negative when a sorts before b
compareEntries(a, b) ==
  IF a.startTime # b.startTime THEN a.startTime - b.startTime
  ELSE IF a.pinnedAt # b.pinnedAt THEN b.pinnedAt - a.pinnedAt
  ELSE a.eventId - b.eventId

\* combined.sort(compareEntries)
RECURSIVE sortEntries(_)
sortEntries(seq) ==
  IF Len(seq) = 0 THEN seq
  ELSE LET last == seq[Len(seq)]
           head == sortEntries(SubSeq(seq, 1, Len(seq) - 1))
           notAfter == SelectSeq(head, LAMBDA o : compareEntries(o, last) <= 0)
           after == SelectSeq(head, LAMBDA o : compareEntries(o, last) > 0)
       IN notAfter \o <<last>> \o after

\* nextPageToken of a page of pageSize entries from offset
nextPageTokenOf(offset, pageSize, length) ==
  IF offset + pageSize < length THEN encodePageToken(offset + pageSize) ELSE None

\* getPinnedEvents(u, options); thrown when parsePageToken throws
getPinnedEvents(store, seriesDocs, options) ==
  LET pageSize == clampPageSize(options.pageSize)
      offset == parsePageToken(options.pageToken)
      directEntries == LET docs == queryEntries(store, options.start, options.end)
                       IN [i \in 1..Len(docs) |-> mapPinnedEvent(docs[i])]
      directEventIds == {directEntries[i].eventId : i \in 1..Len(directEntries)}
      pinnedSeries == SelectSeq(PinSeriesIds, LAMBDA s : store.series[s].exists)
      seriesEntries == expandSeriesEntries(pinnedSeries, store, seriesDocs,
                                           options.start, options.end, directEventIds)
      combined == sortEntries(directEntries \o seriesEntries)
  IN IF offset = InvalidPageToken
       THEN [thrown |-> TRUE, message |-> "Invalid page token"]
       ELSE [thrown |-> FALSE,
             events |-> SubSeq(combined, offset + 1, Min(offset + pageSize, Len(combined))),
             nextPageToken |-> nextPageTokenOf(offset, pageSize, Len(combined)),
             updatedAt |-> store.updatedAt]

\* GET /users/:userId/pinned-events: every exception of getPinnedEvents is
\* answered with status 500.
pinnedEventsRoute(store, seriesDocs, options) ==
  LET pinned == getPinnedEvents(store, seriesDocs, options)
  IN IF pinned.thrown
       THEN [status |-> 500, error |-> "Failed to fetch pinned events",
             message |-> pinned.message]
       ELSE [status |-> 200, body |-> pinned]

Windows ==
  {[start |-> 0, end |-> 2 * TickStep], [start |-> 0, end |-> 4 * TickStep]}
PageSizes == {1, 2}
IdleClient == [pc |-> "idle"]
IdleRequest == [pc |-> "idle"]

\* setPinnedEventStatus called on its own.
SetPin(eventId, pinned) ==
  /\ client.pc = "idle"
  /\ userPinnedEvents' = setPinnedEventStatus(userPinnedEvents, eventId, pinned, now)
  /\ UNCHANGED <<bundleStates, interactions, request, client>>
  /\ UNCHANGED catVars
  /\ UNCHANGED seriesVars
  /\ UNCHANGED ingestVars
  /\ UNCHANGED workVars

\* getPinnedEventEntry: the entry of the event, or None (null) without one
getPinnedEventEntry(store, eventId) ==
  IF store.entries[eventId].exists THEN mapPinnedEvent(store.entries[eventId]) ELSE None

\* POST /users/:userId/pinned-events with a body {eventId, pinned} that
\* passes the validation: the store afterwards and the answer.
pinnedEventPost(store, eventId, pinned, nowHours) ==
  LET after == setPinnedEventStatus(store, eventId, pinned, nowHours)
  IN [store |-> after,
      response |-> [status |-> 200, pinned |-> pinned,
                    event |-> IF pinned THEN getPinnedEventEntry(after, eventId) ELSE None]]

PinPost(eventId, pinned) ==
  /\ client.pc = "idle"
  /\ request.pc = "idle"
  /\ LET post == pinnedEventPost(userPinnedEvents, eventId, pinned, now)
     IN /\ userPinnedEvents' = post.store
        /\ request' = [pc |-> "answered", endpoint |-> "pin", eventId |-> eventId,
                       pinned |-> pinned, response |-> post.response]
  /\ UNCHANGED <<bundleStates, interactions, client>>
  /\ UNCHANGED catVars
  /\ UNCHANGED seriesVars
  /\ UNCHANGED ingestVars
  /\ UNCHANGED workVars

\* setPinnedSeriesStatus called on its own.
SetSeriesPin(seriesId, pinned) ==
  /\ client.pc = "idle"
  /\ userPinnedEvents' =
       setPinnedSeriesStatus(userPinnedEvents, series, seriesId, pinned, now)
  /\ UNCHANGED <<bundleStates, interactions, request, client>>
  /\ UNCHANGED catVars
  /\ UNCHANGED seriesVars
  /\ UNCHANGED ingestVars
  /\ UNCHANGED workVars

\* An ingest run persists event eventId of series seriesId with a new
\* startTime: saveEvent rewrites events/{eventId} and attachEvent the
\* occurrence of the series.  The pinned entries are not touched.
RescheduleEvent(seriesId, eventId, startTime) ==
  /\ client.pc = "idle"
  /\ events[eventId].exists
  /\ series[seriesId].exists
  /\ events[eventId].startTime # startTime
  /\ events' = [events EXCEPT ![eventId].startTime = startTime]
  /\ series' = [series EXCEPT ![seriesId] =
                  attachEventDoc(@, [id |-> eventId, startTime |-> startTime], now)]
  /\ UNCHANGED <<source, proposals, ingest, hist>>
  /\ UNCHANGED <<now, attach, attachCount, committedOcc, cutByLimit, conflicts>>
  /\ UNCHANGED catVars
  /\ UNCHANGED apiVars
  /\ UNCHANGED workVars

\* The caller reads the pinned events, then pins event eventId ...
RoundTripPin(eventId, window) ==
  /\ client.pc = "idle"
  /\ userPinnedEvents' = setPinnedEventStatus(userPinnedEvents, eventId, TRUE, now)
  /\ client' =
       [pc |-> "pinned", eventId |-> eventId, window |-> window,
        wasPinned |-> userPinnedEvents.entries[eventId].exists,
        before |-> getPinnedEvents(userPinnedEvents, series,
                     [start |-> window.start, end |-> window.end,
                      pageSize |-> 0, pageToken |-> None])]
  /\ UNCHANGED <<bundleStates, interactions, request>>
  /\ UNCHANGED catVars
  /\ UNCHANGED seriesVars
  /\ UNCHANGED ingestVars
  /\ UNCHANGED workVars

\* ... and unpins it and reads the pinned events again.
RoundTripUnpin ==
  /\ client.pc = "pinned"
  /\ userPinnedEvents' = setPinnedEventStatus(userPinnedEvents, client.eventId, FALSE, now)
  /\ client' =
       [pc |-> "unpinned", eventId |-> client.eventId, window |-> client.window,
        wasPinned |-> client.wasPinned, before |-> client.before,
        after |-> getPinnedEvents(userPinnedEvents', series,
                    [start |-> client.window.start, end |-> client.window.end,
                     pageSize |-> 0, pageToken |-> None])]
  /\ UNCHANGED <<bundleStates, interactions, request>>
  /\ UNCHANGED catVars
  /\ UNCHANGED seriesVars
  /\ UNCHANGED ingestVars
  /\ UNCHANGED workVars

\* The caller asks for the first page, without a token, ...
PageFirst(window, pageSize) ==
  /\ client.pc = "idle"
  /\ LET page == getPinnedEvents(userPinnedEvents, series,
                   [start |-> window.start, end |-> window.end,
                    pageSize |-> pageSize, pageToken |-> None])
     IN client' = [pc |-> "paging", window |-> window, pageSize |-> pageSize,
                   pages |-> page.events, nextPageToken |-> page.nextPageToken]
  /\ UNCHANGED <<userPinnedEvents, bundleStates, interactions, request>>
  /\ UNCHANGED catVars
  /\ UNCHANGED seriesVars
  /\ UNCHANGED ingestVars
  /\ UNCHANGED workVars

\* ... and for the next page with the token of the last one.
PageNext ==
  /\ client.pc = "paging"
  /\ client.nextPageToken # None
  /\ LET page == getPinnedEvents(userPinnedEvents, series,
                   [start |-> client.window.start, end |-> client.window.end,
                    pageSize |-> client.pageSize, pageToken |-> client.nextPageToken])
     IN client' = [client EXCEPT !.pages = client.pages \o page.events,
                                 !.nextPageToken = page.nextPageToken]
  /\ UNCHANGED <<userPinnedEvents, bundleStates, interactions, request>>
  /\ UNCHANGED catVars
  /\ UNCHANGED seriesVars
  /\ UNCHANGED ingestVars
  /\ UNCHANGED workVars

\* The caller is done with what it observed.
ClientReturn ==
  /\ \/ client.pc = "unpinned"
     \/ client.pc = "paging" /\ client.nextPageToken = None
  /\ client' = IdleClient
  /\ UNCHANGED <<userPinnedEvents, bundleStates, interactions, request>>
  /\ UNCHANGED catVars
  /\ UNCHANGED seriesVars
  /\ UNCHANGED ingestVars
  /\ UNCHANGED workVars

(***************************************************************************)
(* The feed (api/routes.ts GET /feed) with the category bundler            *)
(* (services/categoryBundleService.ts), the bundle state of one user       *)
(* (CategoryBundleStateService) and the ranking                            *)
(* (services/feedRankingService.ts).  A content id is a record that names  *)
(* its kind.  A score is not computed as a number: it is zero, the recency *)
(* score exp(-age / 24) of an age in hours, which is never zero, or the    *)
(* weighted sum of the six signals.  The shuffle of applyExplorationMix is *)
(* a permutation chosen by the step.                                       *)
(***************************************************************************)
PERSONALIZATION_THRESHOLD == 20
UserId == "u"
NullVersion == -1
FeedWindow == [start |-> 0, end |-> 4 * KEEP_HOURS]
PositiveActions == {"liked", "bookmarked", "shared", "attended", "engaged"}

EventContent(e) == [event |-> e]
SeriesContent(s) == [series |-> s]
BundleContent(c) == [bundle |-> c]

ZeroScore == [kind |-> "zero"]
WeightedScore == [kind |-> "weighted"]
getRecencyScore(createdAt, nowHours) == [kind |-> "exp", age |-> nowHours - createdAt]

\* CategoryBundleStateService.markSeen
markSeen(states, categoryId, version) ==
  [states EXCEPT ![categoryId] = [exists |-> TRUE, lastSeenVersion |-> version]]

\* lastSeenVersion as buildBundles passes it on: null unless positive
lastSeenVersionOf(states, categoryId) ==
  IF states[categoryId].exists /\ states[categoryId].lastSeenVersion > 0
    THEN states[categoryId].lastSeenVersion
    ELSE NullVersion

\* The query of the handler: series with nextStartTime in the window, in
\* the order of the series ids.
isSeriesWithinWindow(doc, window) ==
  \E i \in 1..Len(doc.upcomingOccurrences) :
    /\ doc.upcomingOccurrences[i].startTime >= window.start
    /\ doc.upcomingOccurrences[i].startTime < window.end

seriesCandidates(seriesDocs, window) ==
  SelectSeq(<<"s1", "s2", "s3">>,
            LAMBDA s : /\ seriesDocs[s].exists
                       /\ Len(seriesDocs[s].upcomingOccurrences) > 0
                       /\ seriesDocs[s].upcomingOccurrences[1].startTime >= window.start
                       /\ seriesDocs[s].upcomingOccurrences[1].startTime < window.end)

seriesItem(seriesDocs, s) ==
  [id |-> SeriesContent(s), contentType |-> "event-series",
   createdAt |-> seriesDocs[s].createdAt, bundle |-> None]

\* loadFullSeries: the series of the group and of the category that exist
\* and have an occurrence in the window (their order is left out)
loadFullSeries(groupIds, category, seriesDocs, window) ==
  LET targetIds == IF category.seriesIds # {} THEN category.seriesIds ELSE groupIds
  IN {s \in groupIds \cup targetIds :
        seriesDocs[s].exists /\ isSeriesWithinWindow(seriesDocs[s], window)}

\* Mutant of computeNewSeriesIds: a caught-up user is shown the collection.
computeNewSeriesIds_NoCutoff(category, currentSeriesIds, version, lastSeenVersion) ==
  IF lastSeenVersion = NullVersion THEN currentSeriesIds
  ELSE LET newIds == UNION {category.changeLog[i].addedSeriesIds :
                              i \in {k \in 1..Len(category.changeLog) :
                                       category.changeLog[k].version > lastSeenVersion}}
       IN IF newIds = {} /\ version >= lastSeenVersion THEN currentSeriesIds ELSE newIds

computeNewSeriesIds(category, currentSeriesIds, version, lastSeenVersion) ==
  IF lastSeenVersion = NullVersion THEN currentSeriesIds
  ELSE LET newIds == UNION {category.changeLog[i].addedSeriesIds :
                              i \in {k \in 1..Len(category.changeLog) :
                                       category.changeLog[k].version > lastSeenVersion}}
       IN IF newIds = {} /\ version > lastSeenVersion THEN currentSeriesIds ELSE newIds

\* Mutant of displaySeriesOf: always the new series that are in the collection.
displaySeriesOf_NoFallback(fullSeries, newSeriesIds, isNewCategory) ==
  LET displaySeriesIds == IF isNewCategory THEN fullSeries ELSE newSeriesIds
  IN fullSeries \cap displaySeriesIds

\* displaySeries of buildBundleItem, with its fallback to the collection
displaySeriesOf(fullSeries, newSeriesIds, isNewCategory) ==
  LET displaySeriesIds == IF isNewCategory THEN fullSeries ELSE newSeriesIds
      displaySeries == fullSeries \cap displaySeriesIds
  IN IF displaySeries = {} THEN fullSeries ELSE displaySeries

\* buildBundleItem: the bundle, or None when it is not surfaced
buildBundleItem(categoryId, groupIds, category, lastSeenVersion, seriesDocs, window) ==
  LET fullSeries == loadFullSeries(groupIds, category, seriesDocs, window)
      version == category.version
      newSeriesIds == computeNewSeriesIds(category, fullSeries, version, lastSeenVersion)
      isNewCategory == lastSeenVersion = NullVersion
      createdAt == CHOOSE t \in {seriesDocs[s].createdAt : s \in groupIds} :
                     \A s \in groupIds : seriesDocs[s].createdAt <= t
  IN IF fullSeries = {} THEN None
     ELSE IF ~isNewCategory /\ newSeriesIds = {} THEN None
     ELSE [id |-> BundleContent(categoryId), contentType |-> "event-category-bundle",
           createdAt |-> createdAt,
           bundle |-> [categoryId |-> categoryId,
                       seriesIds |-> fullSeries,
                       newSeriesIds |-> newSeriesIds,
                       displaySeries |-> displaySeriesOf(fullSeries, newSeriesIds, isNewCategory),
                       version |-> version,
                       lastSeenVersion |-> lastSeenVersion,
                       isNewCategory |-> isNewCategory]]

\* The groups of groupCandidates, in the order of their first candidate.
RECURSIVE groupOrder(_, _)
groupOrder(candidates, sc) ==
  IF Len(candidates) = 0 THEN <<>>
  ELSE LET rest == groupOrder(SubSeq(candidates, 1, Len(candidates) - 1), sc)
           last == candidates[Len(candidates)]
       IN IF sc[last] = None \/ \E i \in 1..Len(rest) : rest[i] = sc[last].categoryId
            THEN rest
            ELSE Append(rest, sc[last].categoryId)

\* The items the groups contribute, group by group.
RECURSIVE groupItems(_, _, _, _, _, _, _)
groupItems(groups, candidates, cats, sc, states, seriesDocs, window) ==
  IF Len(groups) = 0 THEN <<>>
  ELSE LET categoryId == Head(groups)
           members == SelectSeq(candidates,
                                LAMBDA s : sc[s] # None /\ sc[s].categoryId = categoryId)
           groupIds == {members[i] : i \in 1..Len(members)}
           bundleItem == buildBundleItem(categoryId, groupIds, cats[categoryId],
                                         lastSeenVersionOf(states, categoryId),
                                         seriesDocs, window)
           items == IF ~cats[categoryId].exists
                      THEN [i \in 1..Len(members) |-> seriesItem(seriesDocs, members[i])]
                    ELSE IF bundleItem = None THEN <<>>
                    ELSE <<bundleItem>>
       IN items \o groupItems(Tail(groups), candidates, cats, sc, states, seriesDocs, window)

\* CategoryBundleService.buildBundles
buildBundles(candidates, cats, sc, states, seriesDocs, window) ==
  LET unbundledIds == SelectSeq(candidates, LAMBDA s : sc[s] = None)
      unbundled == [i \in 1..Len(unbundledIds) |-> seriesItem(seriesDocs, unbundledIds[i])]
  IN unbundled \o groupItems(groupOrder(candidates, sc), candidates, cats, sc, states,
                             seriesDocs, window)

userInteractions(docs, userId) == {d \in docs : d.userId = userId}

hasEnoughDataForPersonalization(docs, userId) ==
  Cardinality(userInteractions(docs, userId)) >= PERSONALIZATION_THRESHOLD

\* getUserEmbedding is null unless a positive interaction is about a stored
\* event that has a vector
hasUserEmbedding(docs, eventDocs, userId) ==
  \E d \in userInteractions(docs, userId) :
    /\ d.action \in PositiveActions
    /\ \E e \in EventIds : d.contentId = EventContent(e)
                           /\ eventDocs[e].exists /\ eventDocs[e].vector # "none"

\* candidates.sort by createdAt ascending (a stable sort)
RECURSIVE sortByCreatedAt(_)
sortByCreatedAt(seq) ==
  IF Len(seq) = 0 THEN seq
  ELSE LET last == seq[Len(seq)]
           head == sortByCreatedAt(SubSeq(seq, 1, Len(seq) - 1))
           notAfter == SelectSeq(head, LAMBDA o : o.createdAt <= last.createdAt)
           after == SelectSeq(head, LAMBDA o : o.createdAt > last.createdAt)
       IN notAfter \o <<last>> \o after

withScore(item, score) ==
  [id |-> item.id, contentType |-> item.contentType, createdAt |-> item.createdAt,
   bundle |-> item.bundle, score |-> score]

\* rankContent: without interactions or without an embedding the candidates
\* keep their order and are scored by recency; otherwise they are scored by
\* the weighted sum (their order by score is left to the permutation).
rankContent(candidates, docs, eventDocs, userId, nowHours) ==
  IF userInteractions(docs, userId) = {} \/ ~hasUserEmbedding(docs, eventDocs, userId)
    THEN [i \in 1..Len(candidates) |->
            withScore(candidates[i], getRecencyScore(candidates[i].createdAt, nowHours))]
    ELSE [i \in 1..Len(candidates) |-> withScore(candidates[i], WeightedScore)]

ShuffleOrders(n) == {f \in [1..n -> 1..n] : \A i, j \in 1..n : f[i] = f[j] => i = j}

\* applyExplorationMix: the shuffle of the ranked items
applyExplorationMix(ranked, perm) == [i \in 1..Len(ranked) |-> ranked[perm[i]]]

\* parsePageOffset of the feed: Number(decoded); None when it throws
\* INVALID_PAGE_TOKEN.  Number('') is 0 and Number('7.5') is 7.5.
parsePageOffset(token) ==
  IF token.kind = "digits" THEN [whole |-> token.n, half |-> FALSE]
  ELSE IF token.kind = "fraction" THEN [whole |-> token.n, half |-> TRUE]
  ELSE IF token.kind = "blank" THEN [whole |-> 0, half |-> FALSE]
  ELSE None

\* GET /feed for user userId
feedRoute(cats, sc, states, seriesDocs, docs, eventDocs, userId, pageSize, pageToken, perm, nowHours) ==
  LET hasPersonalizationData == hasEnoughDataForPersonalization(docs, userId)
      candidates == buildBundles(seriesCandidates(seriesDocs, FeedWindow), cats, sc, states,
                                 seriesDocs, FeedWindow)
      rankedCandidates ==
        IF hasPersonalizationData
          THEN applyExplorationMix(rankContent(candidates, docs, eventDocs, userId, nowHours),
                                   perm)
          ELSE LET sorted == sortByCreatedAt(candidates)
               IN [i \in 1..Len(sorted) |-> withScore(sorted[i], ZeroScore)]
      startIndex == IF pageToken = None THEN [whole |-> 0, half |-> FALSE]
                    ELSE parsePageOffset(pageToken)
  IN IF startIndex = None
       THEN [status |-> 400, error |-> "Invalid page token"]
       ELSE
         LET \* twice the end of the slice, startIndex + pageSize
             end2 == 2 * (startIndex.whole + pageSize) + (IF startIndex.half THEN 1 ELSE 0)
             hasMore == end2 < 2 * Len(rankedCandidates)
         IN [status |-> 200,
             events |-> SubSeq(rankedCandidates, startIndex.whole + 1,
                               Min(startIndex.whole + pageSize, Len(rankedCandidates))),
             nextPageToken |->
               IF ~hasMore THEN None
               ELSE [kind |-> IF startIndex.half THEN "fraction" ELSE "digits",
                     n |-> startIndex.whole + pageSize],
             personalized |-> hasPersonalizationData]

\* The interactions of a user who did the same thing n times to event 1.
InteractionHistory(n, action) ==
  {[id |-> i, userId |-> UserId, contentId |-> EventContent(1), contentType |-> "event",
    action |-> action, position |-> 0, timeOfDay |-> "morning", dayOfWeek |-> "monday",
    metadata |-> None] : i \in 1..n}

InteractionHistories ==
  {InteractionHistory(PERSONALIZATION_THRESHOLD - 1, "liked"),
   InteractionHistory(PERSONALIZATION_THRESHOLD, "viewed"),
   InteractionHistory(PERSONALIZATION_THRESHOLD, "liked")}

\* assignSeries, run to its end without another call in between.
AssignSeriesCall(s, force, name, action) ==
  /\ request.pc = "idle"
  /\ assignCount < MaxFeedAssigns
  /\ assignCount' = assignCount + 1
  /\ LET after == assignSeries(categories, seriesCat, s, force, name, action)
     IN /\ categories' = after.categories
        /\ seriesCat' = after.seriesCat
  /\ UNCHANGED assign
  /\ UNCHANGED apiVars
  /\ UNCHANGED seriesVars
  /\ UNCHANGED ingestVars
  /\ UNCHANGED workVars

\* markSeen(u, categoryId, version) with a version the category has or has
\* had; the caller remembers a version that was the current one of the
\* category when it marked it seen.
MarkSeen(categoryId, version) ==
  /\ request.pc = "idle"
  /\ categories[categoryId].exists
  /\ version \in 1..categories[categoryId].version
  /\ bundleStates' = markSeen(bundleStates, categoryId, version)
  /\ client' = IF categories[categoryId].exists /\ categories[categoryId].version = version
                 THEN [client EXCEPT !.caughtUp[categoryId] = version]
                 ELSE client
  /\ UNCHANGED <<userPinnedEvents, interactions, request>>
  /\ UNCHANGED catVars
  /\ UNCHANGED seriesVars
  /\ UNCHANGED ingestVars
  /\ UNCHANGED workVars

\* GET /feed?userId=u
FeedRequest(pageSize, pageToken, perm) ==
  /\ request.pc = "idle"
  /\ perm \in ShuffleOrders(Len(buildBundles(seriesCandidates(series, FeedWindow), categories,
                                            seriesCat, bundleStates, series, FeedWindow)))
  /\ request' = [pc |-> "answered", endpoint |-> "feed", pageToken |-> pageToken,
                 response |-> feedRoute(categories, seriesCat, bundleStates, series,
                                        interactions, events, UserId, pageSize, pageToken,
                                        perm, now)]
  /\ UNCHANGED <<userPinnedEvents, bundleStates, interactions, client>>
  /\ UNCHANGED catVars
  /\ UNCHANGED seriesVars
  /\ UNCHANGED ingestVars
  /\ UNCHANGED workVars

\* The caller fetches the feed page by page: GET /feed?userId=u without a
\* token, ...
FeedPageFirst(pageSize, perm) ==
  /\ client.pc = "idle"
  /\ request.pc = "idle"
  /\ perm \in ShuffleOrders(Len(buildBundles(seriesCandidates(series, FeedWindow), categories,
                                            seriesCat, bundleStates, series, FeedWindow)))
  /\ LET page == feedRoute(categories, seriesCat, bundleStates, series, interactions, events,
                           UserId, pageSize, None, perm, now)
     IN client' = [pc |-> "paging", pageSize |-> pageSize,
                   pages |-> page.events, nextPageToken |-> page.nextPageToken]
  /\ UNCHANGED <<userPinnedEvents, bundleStates, interactions, request>>
  /\ UNCHANGED catVars
  /\ UNCHANGED seriesVars
  /\ UNCHANGED ingestVars
  /\ UNCHANGED workVars

\* ... and then with the nextPageToken of the last answer; every request
\* shuffles anew.
FeedPageNext(perm) ==
  /\ client.pc = "paging"
  /\ client.nextPageToken # None
  /\ perm \in ShuffleOrders(Len(buildBundles(seriesCandidates(series, FeedWindow), categories,
                                            seriesCat, bundleStates, series, FeedWindow)))
  /\ LET page == feedRoute(categories, seriesCat, bundleStates, series, interactions, events,
                           UserId, client.pageSize, client.nextPageToken, perm, now)
     IN client' = [client EXCEPT !.pages = client.pages \o page.events,
                                 !.nextPageToken = page.nextPageToken]
  /\ UNCHANGED <<userPinnedEvents, bundleStates, interactions, request>>
  /\ UNCHANGED catVars
  /\ UNCHANGED seriesVars
  /\ UNCHANGED ingestVars
  /\ UNCHANGED workVars

\* GET /users/u/pinned-events
PinnedEventsRequest(window, pageSize, pageToken) ==
  /\ request.pc = "idle"
  /\ request' = [pc |-> "answered", endpoint |-> "pinned-events", pageToken |-> pageToken,
                 response |-> pinnedEventsRoute(userPinnedEvents, series,
                                [start |-> window.start, end |-> window.end,
                                 pageSize |-> pageSize, pageToken |-> pageToken])]
  /\ UNCHANGED <<userPinnedEvents, bundleStates, interactions, client>>
  /\ UNCHANGED catVars
  /\ UNCHANGED seriesVars
  /\ UNCHANGED ingestVars
  /\ UNCHANGED workVars

\* The response has been sent.
Respond ==
  /\ request.pc = "answered"
  /\ request' = IdleRequest
  /\ UNCHANGED <<userPinnedEvents, bundleStates, interactions, client>>
  /\ UNCHANGED catVars
  /\ UNCHANGED seriesVars
  /\ UNCHANGED ingestVars
  /\ UNCHANGED workVars

(***************************************************************************)
(* POST /api/interactions and POST /api/interactions/batch.  An input is a *)
(* record of the fields the handlers look at; every modelled input has a   *)
(* context object with a sessionId and no dwellTime.  A missing userId or  *)
(* action is the empty text, a missing contentId or categoryId is None.    *)
(***************************************************************************)
VALID_ACTIONS ==
  {"viewed", "liked", "shared", "bookmarked", "dismissed", "not-interested",
   "attended", "engaged", "commented"}
VALID_CONTENT_TYPES ==
  {"event", "event-series", "event-category-bundle", "flash-offer", "poll", "request",
   "photo", "announcement"}
VALID_TIME_OF_DAY == {"morning", "afternoon", "evening", "night"}
VALID_DAY_OF_WEEK ==
  {"monday", "tuesday", "wednesday", "thursday", "friday", "saturday", "sunday"}
MAX_BATCH_LENGTH == 100

\* requireBundleState: the bundle state, or None when it throws a
\* BundleStateValidationError
requireBundleState(metadata) ==
  IF metadata = None THEN None
  ELSE IF "bundleState" \notin DOMAIN metadata THEN None
  ELSE IF metadata.bundleState.categoryId = None THEN None
  ELSE IF metadata.bundleState.version < 0 THEN None
  ELSE [categoryId |-> metadata.bundleState.categoryId,
        version |-> metadata.bundleState.version]

\* The validation of router.post('/'): the error of the 400 response, or
\* "" when the input passes.
validateInteraction(input) ==
  IF input.userId = "" THEN "userId is required and must be a string"
  ELSE IF input.contentId = None THEN "contentId is required and must be a string"
  ELSE IF input.contentType \notin VALID_CONTENT_TYPES THEN "contentType must be one of"
  ELSE IF input.action \notin VALID_ACTIONS THEN "action must be one of"
  ELSE IF input.position < 0 THEN "context.position must be a non-negative number"
  ELSE IF input.timeOfDay \notin VALID_TIME_OF_DAY THEN "context.timeOfDay must be one of"
  ELSE IF input.dayOfWeek \notin VALID_DAY_OF_WEEK THEN "context.dayOfWeek must be one of"
  ELSE ""

\* The check of the loop of router.post('/batch'): an entry without userId,
\* contentId or action is skipped.
passesBasicValidation(input) ==
  input.userId # "" /\ input.contentId # None /\ input.action # ""

\* The stored interaction document
interactionDoc(input, id) ==
  [id |-> id, userId |-> input.userId, contentId |-> input.contentId,
   contentType |-> input.contentType, action |-> input.action,
   position |-> input.position, timeOfDay |-> input.timeOfDay,
   dayOfWeek |-> input.dayOfWeek, metadata |-> input.metadata]

isPinUpdate(input) ==
  input.contentType \in {"event", "event-series"} /\ input.action = "bookmarked"

\* applyPinToggle: metadata.active when it is a boolean, else true
applyPinToggle(store, seriesDocs, update, nowHours) ==
  LET activeValue == IF update.metadata # None /\ "active" \in DOMAIN update.metadata
                       THEN update.metadata.active
                       ELSE TRUE
  IN IF update.contentType = "event-series"
       THEN setPinnedSeriesStatus(store, seriesDocs, update.contentId.series,
                                  activeValue, nowHours)
       ELSE setPinnedEventStatus(store, update.contentId.event, activeValue, nowHours)

\* The pin updates applied in the order in which their writes land.
RECURSIVE applyPinUpdates(_, _, _, _, _)
applyPinUpdates(store, seriesDocs, updates, order, nowHours) ==
  IF Len(order) = 0 THEN store
  ELSE applyPinUpdates(applyPinToggle(store, seriesDocs, updates[Head(order)], nowHours),
                       seriesDocs, updates, Tail(order), nowHours)

\* The bundle updates applied in the order in which their writes land.
RECURSIVE applyBundleUpdates(_, _, _)
applyBundleUpdates(states, updates, order) ==
  IF Len(order) = 0 THEN states
  ELSE applyBundleUpdates(markSeen(states, updates[Head(order)].categoryId,
                                   updates[Head(order)].version),
                          updates, Tail(order))

\* router.post('/'): the stores and the response after the handler; addOk
\* is whether the add of the interaction document succeeds.
postInteraction(docs, store, states, seriesDocs, input, addOk, nowHours) ==
  LET error == validateInteraction(input)
      doc == interactionDoc(input, Cardinality(docs) + 1)
      pinned == IF isPinUpdate(input)
                  THEN applyPinToggle(store, seriesDocs, input, nowHours)
                  ELSE store
      bundleState == requireBundleState(input.metadata)
  IN IF error # ""
       THEN [interactions |-> docs, userPinnedEvents |-> store, bundleStates |-> states,
             response |-> [status |-> 400, error |-> error]]
     ELSE IF ~addOk
       THEN [interactions |-> docs, userPinnedEvents |-> store, bundleStates |-> states,
             response |-> [status |-> 500, error |-> "Failed to record interaction"]]
     ELSE IF input.contentType # "event-category-bundle"
       THEN [interactions |-> docs \cup {doc}, userPinnedEvents |-> pinned,
             bundleStates |-> states, response |-> [status |-> 201, error |-> ""]]
     ELSE IF bundleState = None
       THEN [interactions |-> docs \cup {doc}, userPinnedEvents |-> pinned,
             bundleStates |-> states,
             response |-> [status |-> 400, error |-> "Invalid bundle metadata"]]
     ELSE [interactions |-> docs \cup {doc}, userPinnedEvents |-> pinned,
           bundleStates |-> markSeen(states, bundleState.categoryId, bundleState.version),
           response |-> [status |-> 201, error |-> ""]]

\* The loop of router.post('/batch') over the entries from index i on:
\* the writes put into the batch, the pin updates and the bundle updates,
\* and whether requireBundleState has thrown.
RECURSIVE buildBatch(_, _, _, _)
buildBatch(list, i, firstId, acc) ==
  IF i > Len(list) \/ acc.thrown THEN acc
  ELSE IF ~passesBasicValidation(list[i]) THEN buildBatch(list, i + 1, firstId, acc)
  ELSE LET input == list[i]
           writes == Append(acc.writes, interactionDoc(input, firstId + Len(acc.writes)))
           pins == IF isPinUpdate(input)
                     THEN Append(acc.pinUpdates,
                                 [contentId |-> input.contentId,
                                  contentType |-> input.contentType,
                                  metadata |-> input.metadata])
                     ELSE acc.pinUpdates
           bundleState == requireBundleState(input.metadata)
       IN IF input.contentType # "event-category-bundle"
            THEN buildBatch(list, i + 1, firstId,
                            [acc EXCEPT !.writes = writes, !.pinUpdates = pins])
          ELSE IF bundleState = None
            THEN [acc EXCEPT !.writes = writes, !.pinUpdates = pins, !.thrown = TRUE]
          ELSE buildBatch(list, i + 1, firstId,
                          [acc EXCEPT !.writes = writes, !.pinUpdates = pins,
                                      !.bundleUpdates = Append(acc.bundleUpdates, bundleState)])

\* router.post('/batch') up to the call of batch.commit()
receiveBatch(docs, list) ==
  LET built == buildBatch(list, 1, Cardinality(docs) + 1,
                          [writes |-> <<>>, pinUpdates |-> <<>>, bundleUpdates |-> <<>>,
                           thrown |-> FALSE])
  IN IF Len(list) = 0
       THEN [pc |-> "answered", endpoint |-> "batch", writes |-> <<>>,
             pinUpdates |-> <<>>, bundleUpdates |-> <<>>,
             response |-> [status |-> 400,
                           error |-> "interactions must be a non-empty array"]]
     ELSE IF Len(list) > MAX_BATCH_LENGTH
       THEN [pc |-> "answered", endpoint |-> "batch", writes |-> <<>>,
             pinUpdates |-> <<>>, bundleUpdates |-> <<>>,
             response |-> [status |-> 400, error |-> "Maximum 100 interactions per batch"]]
     ELSE IF built.thrown
       THEN [pc |-> "answered", endpoint |-> "batch", writes |-> built.writes,
             pinUpdates |-> built.pinUpdates, bundleUpdates |-> built.bundleUpdates,
             response |-> [status |-> 400, error |-> "Invalid bundle metadata"]]
     ELSE [pc |-> "commit", endpoint |-> "batch", writes |-> built.writes,
           pinUpdates |-> built.pinUpdates, bundleUpdates |-> built.bundleUpdates,
           response |-> None]

\* Mutant of commitBatch: the handler goes on after a commit that failed.
commitBatch_GoesOn(req, commitOk) ==
  [req EXCEPT !.pc = "pins"]

\* The request after `await batch.commit()`: on to the side effects, or to
\* the catch block when the commit is rejected.
commitBatch(req, commitOk) ==
  IF commitOk THEN [req EXCEPT !.pc = "pins"]
  ELSE [req EXCEPT !.pc = "answered",
                   !.response = [status |-> 500,
                                 error |-> "Failed to record batch interactions"]]

\* The contents a request is about
PostedEventId == 1
PostedSeriesId == "s1"
PostedCategoryId == buildCategoryId(HostId, NameYoga)

ValidInput(contentId, contentType, action, metadata) ==
  [userId |-> UserId, contentId |-> contentId, contentType |-> contentType,
   action |-> action, position |-> 0, timeOfDay |-> "morning", dayOfWeek |-> "monday",
   metadata |-> metadata]

BookmarkEvent == ValidInput(EventContent(PostedEventId), "event", "bookmarked", None)
UnbookmarkEvent ==
  ValidInput(EventContent(PostedEventId), "event", "bookmarked", [active |-> FALSE])
BookmarkSeries == ValidInput(SeriesContent(PostedSeriesId), "event-series", "bookmarked", None)
ViewBundle ==
  ValidInput(BundleContent(PostedCategoryId), "event-category-bundle", "viewed",
             [bundleState |-> [categoryId |-> PostedCategoryId, version |-> 1]])
ViewBundleNoState ==
  ValidInput(BundleContent(PostedCategoryId), "event-category-bundle", "viewed", None)

\* Inputs that break one rule of the validation each
InvalidInputs ==
  {[BookmarkEvent EXCEPT !.userId = ""],
   [BookmarkEvent EXCEPT !.contentId = None],
   [BookmarkEvent EXCEPT !.contentType = "nonsense"],
   [BookmarkEvent EXCEPT !.action = "teleported"],
   [BookmarkEvent EXCEPT !.position = -1],
   [BookmarkEvent EXCEPT !.timeOfDay = "noon"],
   [BookmarkEvent EXCEPT !.dayOfWeek = "someday"]}

InteractionInputs ==
  {BookmarkEvent, UnbookmarkEvent, BookmarkSeries, ViewBundle, ViewBundleNoState}
    \cup InvalidInputs

BatchLengths == 0..2
BatchBodies == UNION {[1..n -> InteractionInputs] : n \in BatchLengths}

\* POST /api/interactions
PostInteraction(input, addOk) ==
  /\ request.pc = "idle"
  /\ Cardinality(interactions) < MaxInteractions
  /\ LET after == postInteraction(interactions, userPinnedEvents, bundleStates, series,
                                  input, addOk, now)
     IN /\ interactions' = after.interactions
        /\ userPinnedEvents' = after.userPinnedEvents
        /\ bundleStates' = after.bundleStates
        /\ request' = [pc |-> "answered", endpoint |-> "single", input |-> input,
                       response |-> after.response]
  /\ UNCHANGED client
  /\ UNCHANGED catVars
  /\ UNCHANGED seriesVars
  /\ UNCHANGED ingestVars
  /\ UNCHANGED workVars

\* POST /api/interactions/batch, up to the call of batch.commit()
BatchReceive(list) ==
  /\ request.pc = "idle"
  /\ Cardinality(interactions) < MaxInteractions
  /\ request' = receiveBatch(interactions, list)
  /\ UNCHANGED <<userPinnedEvents, bundleStates, interactions, client>>
  /\ UNCHANGED catVars
  /\ UNCHANGED seriesVars
  /\ UNCHANGED ingestVars
  /\ UNCHANGED workVars

\* batch.commit() resolves, with every write of the batch stored, or is
\* rejected, with none.
BatchCommit(commitOk) ==
  /\ request.pc = "commit"
  /\ interactions' = IF commitOk
                       THEN interactions \cup {request.writes[i] : i \in 1..Len(request.writes)}
                       ELSE interactions
  /\ request' = commitBatch(request, commitOk)
  /\ UNCHANGED <<userPinnedEvents, bundleStates, client>>
  /\ UNCHANGED catVars
  /\ UNCHANGED seriesVars
  /\ UNCHANGED ingestVars
  /\ UNCHANGED workVars

\* Promise.all of the pin updates
BatchPins(order) ==
  /\ request.pc = "pins"
  /\ order \in ShuffleOrders(Len(request.pinUpdates))
  /\ userPinnedEvents' =
       applyPinUpdates(userPinnedEvents, series, request.pinUpdates, order, now)
  /\ request' = [request EXCEPT !.pc = "bundles"]
  /\ UNCHANGED <<bundleStates, interactions, client>>
  /\ UNCHANGED catVars
  /\ UNCHANGED seriesVars
  /\ UNCHANGED ingestVars
  /\ UNCHANGED workVars

\* Promise.all of the bundle updates, and the 201 response
BatchBundles(order) ==
  /\ request.pc = "bundles"
  /\ order \in ShuffleOrders(Len(request.bundleUpdates))
  /\ bundleStates' = applyBundleUpdates(bundleStates, request.bundleUpdates, order)
  /\ request' = [request EXCEPT !.pc = "answered",
                                !.response = [status |-> 201, error |-> ""]]
  /\ UNCHANGED <<userPinnedEvents, interactions, client>>
  /\ UNCHANGED catVars
  /\ UNCHANGED seriesVars
  /\ UNCHANGED ingestVars
  /\ UNCHANGED workVars

(***************************************************************************)
(* The fetch of a source connector.  GoogleCalendarConnector follows the   *)
(* nextPageToken of each response, TribeEventsConnector counts pages up to *)
(* the total_pages of the last response; both request a page with          *)
(* fetchWithRetry.  The upstream decides the outcome of every attempt.     *)
(***************************************************************************)
MAX_ATTEMPTS == 3
PAGE_GUARD == 25
Connectors == {"google-calendar", "tribe-events"}

\* total_pages as the upstream reports it: absent or zero, one more than
\* the page just served, or a large count
LargePageCount == PAGE_GUARD + 15
ReportedTotalPages(page) == {0, page + 1, LargePageCount}

IdleFetch == [pc |-> "idle", connector |-> "none", page |-> 0, attempt |-> 0, totalPages |-> 1]

\* The loop conditions of fetchEventsFromApi (pageToken && attempt < 25,
\* attempt counting the pages requested) and of fetchRawEventsWithParams
\* (page <= totalPages, after page += 1), after page number `page`.
continuesAfterPage(connector, page, hasNextPageToken, totalPages) ==
  IF connector = "google-calendar"
    THEN hasNextPageToken /\ page < PAGE_GUARD
    ELSE page + 1 <= totalPages

\* fetchRawEvents is called: the first page is about to be requested.
FetchStart(connector) ==
  /\ fetch.pc \in {"idle", "done", "failed"}
  /\ fetch' = [pc |-> "page", connector |-> connector, page |-> 1, attempt |-> 0,
               totalPages |-> 1]
  /\ UNCHANGED <<tagProposals, record, save, call>>
  /\ UNCHANGED catVars
  /\ UNCHANGED seriesVars
  /\ UNCHANGED ingestVars
  /\ UNCHANGED apiVars

\* One attempt of fetchWithRetry fails (network error or a status that is
\* not ok): retry after the backoff, or throw after the last attempt.
FetchAttemptFails ==
  /\ fetch.pc = "page"
  /\ fetch.attempt < MAX_ATTEMPTS
  /\ fetch' = [fetch EXCEPT !.attempt = @ + 1,
                            !.pc = IF fetch.attempt + 1 < MAX_ATTEMPTS
                                     THEN "page" ELSE "failed"]
  /\ UNCHANGED <<tagProposals, record, save, call>>
  /\ UNCHANGED catVars
  /\ UNCHANGED seriesVars
  /\ UNCHANGED ingestVars
  /\ UNCHANGED apiVars

\* One attempt of fetchWithRetry succeeds: the page is taken and the loop
\* goes on to the next page or ends.
FetchAttemptSucceeds(hasNextPageToken, reportedTotalPages) ==
  /\ fetch.pc = "page"
  /\ fetch.attempt < MAX_ATTEMPTS
  /\ fetch.page < MaxPages
  /\ reportedTotalPages \in ReportedTotalPages(fetch.page)
  /\ LET totalPages == Max(1, reportedTotalPages)
     IN fetch' =
          IF continuesAfterPage(fetch.connector, fetch.page, hasNextPageToken, totalPages)
            THEN [fetch EXCEPT !.page = @ + 1, !.attempt = 0, !.totalPages = totalPages]
            ELSE [fetch EXCEPT !.pc = "done", !.attempt = @ + 1, !.totalPages = totalPages]
  /\ UNCHANGED <<tagProposals, record, save, call>>
  /\ UNCHANGED catVars
  /\ UNCHANGED seriesVars
  /\ UNCHANGED ingestVars
  /\ UNCHANGED apiVars

(***************************************************************************)
(* Idle values of the calls in flight                                      *)
(***************************************************************************)
ProposalSlugs == {"yoga", "arts"}
ProposalSourceIds == {"src-a", "src-b"}
NoProposals == [slug \in ProposalSlugs |-> NoDoc]
RecordProcs == {"r1", "r2"}
IdleRecord == [pc |-> "idle", slug |-> "", sourceId |-> "", snapshot |-> NoDoc, attempts |-> 0]
SaveProcs == {"w1", "w2"}
IdleSave == [pc |-> "idle", eventId |-> 0, startTime |-> 0, existingSnapshot |-> None, result |-> "none"]
IdleCall == [fn |-> "none"]

(***************************************************************************)
(* Tag proposals: TagProposalRepository.recordOccurrence.  A proposal is   *)
(* the document tagProposals/{slug}; sourceCounts is a function of the     *)
(* source ids, 0 for a key the map does not hold.  A call with an empty    *)
(* slug returns before it reads anything and is no step of the model.      *)
(***************************************************************************)
RECURSIVE sumOfCounts(_, _)
sumOfCounts(sourceCounts, keys) ==
  IF keys = {} THEN 0
  ELSE LET k == CHOOSE x \in keys : TRUE
       IN sourceCounts[k] + sumOfCounts(sourceCounts, keys \ {k})

\* Mutant of recordedProposal: the count of the source is not incremented.
recordedProposal_CountOnly(snapshot, sourceId) ==
  IF ~snapshot.exists
    THEN [exists |-> TRUE, occurrenceCount |-> 1,
          sourceCounts |-> [k \in ProposalSourceIds |-> 0]]
    ELSE [snapshot EXCEPT !.occurrenceCount = @ + 1]

\* The document the transaction body writes for the snapshot it read.
recordedProposal(snapshot, sourceId) ==
  IF ~snapshot.exists
    THEN [exists |-> TRUE, occurrenceCount |-> 1,
          sourceCounts |-> [k \in ProposalSourceIds |-> IF k = sourceId THEN 1 ELSE 0]]
    ELSE [snapshot EXCEPT !.occurrenceCount = @ + 1,
                          !.sourceCounts[sourceId] = @ + 1]

\* Occurrences recorded or being recorded.
recordsStarted ==
  sumOfCounts([slug \in ProposalSlugs |->
                 IF tagProposals[slug].exists THEN tagProposals[slug].occurrenceCount ELSE 0],
              ProposalSlugs)
  + Cardinality({p \in RecordProcs : record[p].pc = "tx"})

\* recordOccurrence starts its transaction and reads the document.
RecordRead(p, slug, sourceId) ==
  /\ record[p].pc = "idle"
  /\ recordsStarted < MaxRecords
  /\ record' = [record EXCEPT ![p] =
                  [pc |-> "tx", slug |-> slug, sourceId |-> sourceId,
                   snapshot |-> tagProposals[slug], attempts |-> 1]]
  /\ UNCHANGED <<fetch, tagProposals, save, call>>
  /\ UNCHANGED catVars
  /\ UNCHANGED seriesVars
  /\ UNCHANGED ingestVars
  /\ UNCHANGED apiVars

\* The transaction commits: the document is written if it is still the one
\* read; if not, the transaction runs again on the current document.
RecordCommit(p) ==
  /\ record[p].pc = "tx"
  /\ LET r == record[p]
     IN IF txCanCommit(tagProposals[r.slug], r.snapshot)
          THEN /\ tagProposals' = [tagProposals EXCEPT ![r.slug] =
                                     recordedProposal(r.snapshot, r.sourceId)]
               /\ record' = [record EXCEPT ![p].pc = "idle"]
          ELSE /\ record' = [record EXCEPT ![p].snapshot = tagProposals[r.slug],
                                           ![p].attempts = r.attempts + 1]
               /\ UNCHANGED tagProposals
  /\ UNCHANGED <<fetch, save, call>>
  /\ UNCHANGED catVars
  /\ UNCHANGED seriesVars
  /\ UNCHANGED ingestVars
  /\ UNCHANGED apiVars

(***************************************************************************)
(* Concurrent saves of events: persist reads the stored event (phase 0 of  *)
(* ingestSource) and hands the snapshot to EventStore.saveEvent, which     *)
(* reads the document itself when no snapshot is passed, then sets the     *)
(* whole document and reports 'created' or 'updated' from the snapshot.    *)
(***************************************************************************)
\* The caller starts a save; preRead: it has read the stored event and
\* passes the snapshot.
SaveStart(p, eventId, startTime, preRead) ==
  /\ save[p].pc \in {"idle", "done"}
  /\ save' = [save EXCEPT ![p] =
                [pc |-> "get", eventId |-> eventId, startTime |-> startTime,
                 existingSnapshot |-> IF preRead THEN events[eventId] ELSE None,
                 result |-> "none"]]
  /\ UNCHANGED <<fetch, tagProposals, record, call>>
  /\ UNCHANGED catVars
  /\ UNCHANGED seriesVars
  /\ UNCHANGED ingestVars
  /\ UNCHANGED apiVars

\* saveEvent: snapshot = existingSnapshot ?? (await docRef.get())
SaveGet(p) ==
  /\ save[p].pc = "get"
  /\ save' = [save EXCEPT ![p].pc = "set",
                          ![p].result = saveEventResult(save[p].existingSnapshot,
                                                        save[p].eventId)]
  /\ UNCHANGED <<fetch, tagProposals, record, call>>
  /\ UNCHANGED catVars
  /\ UNCHANGED seriesVars
  /\ UNCHANGED ingestVars
  /\ UNCHANGED apiVars

\* saveEvent: await docRef.set(data) and the return of the result
SaveSet(p) ==
  /\ save[p].pc = "set"
  /\ events' = [events EXCEPT ![save[p].eventId] =
                  [exists |-> TRUE, startTime |-> save[p].startTime]]
  /\ save' = [save EXCEPT ![p].pc = "done"]
  /\ UNCHANGED <<source, proposals, ingest, hist>>
  /\ UNCHANGED <<fetch, tagProposals, record, call>>
  /\ UNCHANGED catVars
  /\ UNCHANGED seriesVars
  /\ UNCHANGED apiVars

(***************************************************************************)
(* Chunked ingest: ingestSourceInChunks and the window each connector      *)
(* requests for a chunk.  Instants are milliseconds since a UTC midnight;  *)
(* a date is the number of its UTC day.  The window start is a start of    *)
(* day in a time zone: a UTC midnight plus the offset of the zone, which   *)
(* is the same for the whole run.                                          *)
(***************************************************************************)
MS_PER_MINUTE == 60000
MS_PER_DAY == 24 * 60 * MS_PER_MINUTE
SourceKinds == {"google-calendar", "tribe-events"}
\* Minutes the zone is behind UTC: UTC, and America/Los_Angeles in summer
\* and in winter.
ZoneOffsetMinutes == {0, 7 * 60, 8 * 60}

\* addUtcDays(date, days)
addUtcDays(date, days) == date + days * MS_PER_DAY

\* startOfDayInTimeZone(reference, timeZone): the UTC midnight of the
\* reference's UTC date, moved by the offset of the zone.
startOfDayInTimeZone(reference, offsetMinutes) ==
  (reference \div MS_PER_DAY) * MS_PER_DAY + offsetMinutes * MS_PER_MINUTE

\* formatDate(date) of the Tribe adapter: the UTC date.
formatDate(date) == date \div MS_PER_DAY

\* The range of instants a connector asks its source for, as a half-open
\* interval.  Google: timeMin and timeMax of getWindowBoundsForRange.
\* Tribe: start_date and end_date, both whole days as in the request for a
\* targetDate (start_date = end_date), end_date being the date of the last
\* millisecond before endDateExclusive.
requestedRange(kind, startDate, endDateExclusive, offsetMinutes) ==
  IF kind = "google-calendar"
    THEN [start |-> startOfDayInTimeZone(startDate, offsetMinutes),
          end |-> startOfDayInTimeZone(endDateExclusive, offsetMinutes)]
    ELSE [start |-> formatDate(startDate) * MS_PER_DAY,
          end |-> (formatDate(endDateExclusive - 1) + 1) * MS_PER_DAY]

\* ingestSourceInChunks up to its first ingestSourceWindow: a missing or
\* non-positive chunk size, or one not below the span, gives one window.
ChunksStart(kind, day, offsetMinutes, totalSpanDays, chunkSize) ==
  /\ call.fn \in {"none", "hostContext"} \/ (call.fn = "chunks" /\ call.pc = "done")
  /\ LET windowStart == startOfDayInTimeZone(day * MS_PER_DAY, offsetMinutes)
         whole == [start |-> windowStart, end |-> addUtcDays(windowStart, totalSpanDays)]
         single == chunkSize <= 0 \/ chunkSize >= totalSpanDays
     IN call' = [fn |-> "chunks", pc |-> IF single THEN "done" ELSE "loop",
                 kind |-> kind, offsetMinutes |-> offsetMinutes,
                 windowStart |-> windowStart, totalSpanDays |-> totalSpanDays,
                 chunkSize |-> chunkSize, offset |-> 0,
                 windows |-> IF single THEN <<whole>> ELSE <<>>,
                 requests |-> IF single
                                THEN <<requestedRange(kind, whole.start, whole.end,
                                                      offsetMinutes)>>
                                ELSE <<>>]
  /\ UNCHANGED <<fetch, tagProposals, record, save>>
  /\ UNCHANGED catVars
  /\ UNCHANGED seriesVars
  /\ UNCHANGED ingestVars
  /\ UNCHANGED apiVars

\* One turn of the loop: the chunk at the offset is ingested.
ChunkIngest ==
  /\ call.fn = "chunks"
  /\ call.pc = "loop"
  /\ LET chunkStart == addUtcDays(call.windowStart, call.offset)
         chunkEnd == addUtcDays(call.windowStart,
                                Min(call.offset + call.chunkSize, call.totalSpanDays))
         offset == call.offset + call.chunkSize
     IN call' = [call EXCEPT
                   !.windows = Append(@, [start |-> chunkStart, end |-> chunkEnd]),
                   !.requests = Append(@, requestedRange(call.kind, chunkStart, chunkEnd,
                                                         call.offsetMinutes)),
                   !.offset = offset,
                   !.pc = IF offset < call.totalSpanDays THEN "loop" ELSE "done"]
  /\ UNCHANGED <<fetch, tagProposals, record, save>>
  /\ UNCHANGED catVars
  /\ UNCHANGED seriesVars
  /\ UNCHANGED ingestVars
  /\ UNCHANGED apiVars

(***************************************************************************)
(* Host context of an event: deriveDefaultHostContext of the ingest and    *)
(* deriveHostContext of the Tribe adapter, with buildStableId.  Strings    *)
(* are the ones below; trim and createSlug are given by their values on    *)
(* them.  A slug holds no "__", so the join of the slugs is modelled by    *)
(* their sequence and the empty string by the empty sequence; no id of the *)
(* model reaches the 200 characters buildStableId cuts at.                 *)
(***************************************************************************)
\* null or undefined, of a string.
NoString == "<null>"
HostAdapters == {"default", "tribe-events"}
OrganizerInputs == {NoString, "Ann Lee", " ann lee ", "   "}
VenueInputs == {NoString, "Odd Fellows Hall"}
LabelInputs == {NoString, "Orcas Calendar"}
SourceIdInputs == {"src-a", "src-b"}
SourceEventIdInputs == {"ev-1", "ev-2", ""}

\* String.prototype.trim
trim(str) ==
  CASE str = " ann lee " -> "ann lee"
    [] str = "   " -> ""
    [] OTHER -> str

\* createSlug: lower case, quotes dropped, runs of other characters turned
\* into one "-", no "-" at the ends.
createSlug(str) ==
  CASE str \in {"Ann Lee", "ann lee", " ann lee "} -> "ann-lee"
    [] str = "Odd Fellows Hall" -> "odd-fellows-hall"
    [] str = "Orcas Calendar" -> "orcas-calendar"
    [] str = "Orcas Center" -> "orcas-center"
    [] str = "   " -> ""
    [] OTHER -> str

\* sanitizeName: the trimmed value, null for a missing or blank one.
sanitizeName(value) ==
  IF value = NoString THEN NoString
  ELSE IF trim(value) = "" THEN NoString ELSE trim(value)

\* a ?? b
orElse(a, b) == IF a # NoString THEN a ELSE b

\* A string as an id: the sequence of its slugs.
asId(str) == IF str = "" THEN <<>> ELSE <<str>>

buildStableId(parts, fallback) ==
  LET sanitized == SelectSeq([i \in 1..Len(parts) |->
                                IF parts[i] = NoString THEN "" ELSE trim(parts[i])],
                             LAMBDA part : part # "")
      slugged == SelectSeq([i \in 1..Len(sanitized) |-> createSlug(sanitized[i])],
                           LAMBDA slug : slug # "")
  IN IF Len(sanitized) = 0 THEN asId(fallback)
     ELSE IF Len(slugged) = 0 THEN asId(fallback)
     ELSE slugged

\* x || y || 'host' on ids
firstNonEmptyId(id, sourceId) ==
  IF id # <<>> THEN id
  ELSE IF createSlug(sourceId) # "" THEN <<createSlug(sourceId)>> ELSE <<"host">>

\* deriveDefaultHostContext(event, adapter); the event has no sourceUrl.
deriveDefaultHostContext(eventOrganizer, label, sourceId, sourceEventId) ==
  LET organizer == sanitizeName(eventOrganizer)
      fallbackSource == orElse(organizer, orElse(sanitizeName(label), sanitizeName(sourceId)))
  IN [hostIdSeed |->
        firstNonEmptyId(
          buildStableId(<<organizer, sanitizeName(label), sourceId, sourceEventId>>,
                        createSlug(orElse(fallbackSource, "host"))),
          sourceId),
      hostName |-> orElse(organizer, orElse(sanitizeName(label), fallbackSource)),
      organizer |-> organizer]

\* deriveHostContext(event, raw, label) of the Tribe adapter; the raw event
\* names no organizer of its own.
deriveHostContext(eventOrganizer, venue, label, sourceId, sourceEventId) ==
  LET organizer == sanitizeName(eventOrganizer)
      venueName == sanitizeName(venue)
      fallback == orElse(organizer, orElse(venueName, orElse(sanitizeName(label), "Orcas Center")))
  IN [hostIdSeed |->
        firstNonEmptyId(
          buildStableId(<<organizer, venueName, label, sourceId, sourceEventId>>,
                        createSlug(fallback)),
          sourceId),
      hostName |-> orElse(organizer, orElse(venueName, orElse(sanitizeName(label), fallback))),
      organizer |-> organizer]

\* normalize derives the host context of one event.
DeriveHost(adapter, organizer, venue, label, sourceId, sourceEventId) ==
  /\ adapter = "default" => venue = NoString
  /\ call' = [fn |-> "hostContext", adapter |-> adapter, organizer |-> organizer,
              venue |-> venue, label |-> label, sourceId |-> sourceId,
              sourceEventId |-> sourceEventId,
              hostContext |->
                IF adapter = "default"
                  THEN deriveDefaultHostContext(organizer, label, sourceId, sourceEventId)
                  ELSE deriveHostContext(organizer, venue, label, sourceId, sourceEventId)]
  /\ UNCHANGED <<fetch, tagProposals, record, save>>
  /\ UNCHANGED catVars
  /\ UNCHANGED seriesVars
  /\ UNCHANGED ingestVars
  /\ UNCHANGED apiVars

(***************************************************************************)
(* Initial states of the category store: the empty store, and a store in   *)
(* which series s1 has moved between the two categories often enough for   *)
(* the yoga category to hold CHANGE_LOG_LIMIT changeLog entries.           *)
(***************************************************************************)
YogaId == buildCategoryId(HostId, NameYoga)
ArtsId == buildCategoryId(HostId, NameArts)

AgedYogaLog ==
  [i \in 1..CHANGE_LOG_LIMIT |->
     [version |-> i,
      addedSeriesIds |-> IF i = 1 THEN {"s3"} ELSE IF i = 2 THEN {"s2"} ELSE {"s1"}]]

AgedArtsLog ==
  [i \in 1..(CHANGE_LOG_LIMIT - 2) |-> [version |-> i, addedSeriesIds |-> {"s1"}]]

EmptyCategories == [id \in CategoryIds |-> NoDoc]

AgedCategories ==
  [id \in CategoryIds |->
     IF id = YogaId
       THEN [exists |-> TRUE, name |-> NameYoga, seriesIds |-> {"s2", "s3"},
             version |-> CHANGE_LOG_LIMIT, changeLog |-> AgedYogaLog]
       ELSE [exists |-> TRUE, name |-> NameArts, seriesIds |-> {"s1"},
             version |-> CHANGE_LOG_LIMIT - 2, changeLog |-> AgedArtsLog]]

AgedSeriesCat ==
  [s \in SeriesIds |->
     IF s = "s1" THEN [categoryId |-> ArtsId, categoryName |-> NameArts]
                 ELSE [categoryId |-> YogaId, categoryName |-> NameYoga]]

IdleSeriesVars ==
  /\ now = KEEP_HOURS
  /\ attach = [p \in AttachProcs |-> IdleAttach]
  /\ attachCount = 0
  /\ committedOcc = [s \in AttachTargets |-> [e \in EventIds |-> None]]
  /\ cutByLimit = {}
  /\ conflicts = 0

IdleCatVars ==
  /\ categories = EmptyCategories
  /\ seriesCat = [s \in SeriesIds |-> None]
  /\ assign = [p \in AssignProcs |-> IdleAssign]
  /\ assignCount = 0

\* The value of the work variables in the specifications that do not use
\* them.
IdleWorkVars ==
  /\ fetch = IdleFetch
  /\ tagProposals = NoProposals
  /\ record = [p \in RecordProcs |-> IdleRecord]
  /\ save = [p \in SaveProcs |-> IdleSave]
  /\ call = IdleCall

\* The value of the API variables in the specifications that serve no
\* request.
IdleApiVars ==
  /\ userPinnedEvents = NoPins
  /\ bundleStates = [id \in CategoryIds |-> NoDoc]
  /\ interactions = {}
  /\ request = IdleRequest
  /\ client = IdleClient

CatInit ==
  /\ \/ categories = EmptyCategories /\ seriesCat = [s \in SeriesIds |-> None]
     \/ categories = AgedCategories /\ seriesCat = AgedSeriesCat
  /\ assign = [p \in AssignProcs |-> IdleAssign]
  /\ assignCount = 0
  /\ series = [s \in SeriesIds |-> NoDoc]
  /\ IdleSeriesVars
  /\ IdleApiVars
  /\ IdleWorkVars
  /\ IdleIngestVars

CatNext ==
  \/ \E p \in AssignProcs, s \in SeriesIds, force \in BOOLEAN : AssignStart(p, s, force)
  \/ \E p \in AssignProcs : AssignList(p)
  \/ \E p \in AssignProcs : AssignCreate(p)
  \/ \E p \in AssignProcs : AddTxGet(p)
  \/ \E p \in AssignProcs : AddTxCommit(p)
  \/ \E p \in AssignProcs : AssignRemove(p)
  \/ \E p \in AssignProcs : AssignSetSeries(p)

\* No other assignSeries call in flight is about series s.
NoOtherAssignOf(s) == \A q \in AssignProcs : assign[q].seriesId # s

FreshInit ==
  /\ IdleCatVars
  /\ series = [s \in SeriesIds |-> NoDoc]
  /\ IdleSeriesVars
  /\ IdleApiVars
  /\ IdleWorkVars
  /\ IdleIngestVars

\* Concurrent assignSeries calls, all about distinct series, on an empty store.
DistinctNext ==
  \/ \E p \in AssignProcs, s \in SeriesIds, force \in BOOLEAN :
       NoOtherAssignOf(s) /\ AssignStart(p, s, force)
  \/ \E p \in AssignProcs : AssignList(p)
  \/ \E p \in AssignProcs : AssignCreate(p)
  \/ \E p \in AssignProcs : AddTxGet(p)
  \/ \E p \in AssignProcs : AddTxCommit(p)
  \/ \E p \in AssignProcs : AssignRemove(p)
  \/ \E p \in AssignProcs : AssignSetSeries(p)

SpecDistinct == FreshInit /\ [][DistinctNext]_vars

Init == CatInit
Next == CatNext
Spec == Init /\ [][Next]_vars

(***************************************************************************)
(* Initial states of the series store: no series document, and a series    *)
(* that holds one occurrence less than OCCURRENCE_LIMIT, all of them two   *)
(* days ahead.                                                             *)
(***************************************************************************)
FillerOccurrences ==
  [i \in 1..(OCCURRENCE_LIMIT - 1) |-> [eventId |-> 100 + i, startTime |-> 2 * KEEP_HOURS]]

FullSeriesDoc ==
  [exists |-> TRUE, upcomingOccurrences |-> FillerOccurrences,
   createdAt |-> KEEP_HOURS, updatedAt |-> KEEP_HOURS]

SeriesInit ==
  /\ \/ series = [s \in SeriesIds |-> NoDoc]
     \/ series = [s \in SeriesIds |-> IF s \in AttachTargets THEN FullSeriesDoc ELSE NoDoc]
  /\ IdleSeriesVars
  /\ IdleApiVars
  /\ IdleWorkVars
  /\ IdleCatVars
  /\ IdleIngestVars

SeriesNext ==
  \/ \E p \in AttachProcs, s \in AttachTargets, e \in EventIds,
        t \in StartTimes \cup {NoStartTime} :
       AttachEvent(p, s, [id |-> e, startTime |-> t])
  \/ \E p \in AttachProcs : AttachTxRetry(p)
  \/ \E p \in AttachProcs : AttachTxCommit(p)
  \/ Tick

SpecSeries == SeriesInit /\ [][SeriesNext]_vars

(***************************************************************************)
(* Ingest runs over one source whose payloads do not change between the    *)
(* runs, on empty stores.                                                  *)
(***************************************************************************)
IngestInit ==
  /\ source \in Sources
  /\ events = NoEvents
  /\ proposals = 0
  /\ ingest = IdleIngest
  /\ hist = FreshHist
  /\ series = [s \in SeriesIds |-> NoDoc]
  /\ IdleSeriesVars
  /\ IdleApiVars
  /\ IdleWorkVars
  /\ IdleCatVars

IngestNext ==
  \/ \E forceRefresh \in BOOLEAN : IngestStart(forceRefresh)
  \/ \E fault \in FaultPoints \cup {NoFault} : Prepare(fault)
  \/ \E fault \in FaultPoints \cup {NoFault} : Tag(fault)
  \/ \E fault \in FaultPoints \cup {NoFault} : Embed(fault)
  \/ \E fault \in FaultPoints \cup {NoFault} : Persist(fault)
  \/ IngestFinish

SpecIngest == IngestInit /\ [][IngestNext]_vars

\* Ingest runs over one source in which the title of an event can change
\* between the runs.
RetitledTitles == {"s1", "s2"}

RetitleNext ==
  \/ IngestNext
  \/ \E i \in PayloadIdx, title \in RetitledTitles : RetitleEvent(i, title)

SpecRetitle == IngestInit /\ [][RetitleNext]_vars

(***************************************************************************)
(* The pinned events of one user, who pins and unpins events and a series  *)
(* and reads the pinned events page by page.                               *)
(***************************************************************************)
PinsInit ==
  /\ userPinnedEvents = NoPins
  /\ bundleStates = [id \in CategoryIds |-> NoDoc]
  /\ interactions = {}
  /\ request = IdleRequest
  /\ client = IdleClient
  /\ IdleWorkVars
  /\ series = [s \in SeriesIds |-> IF s = "s1" THEN PinnableSeriesDoc ELSE NoDoc]
  /\ IdleSeriesVars
  /\ IdleCatVars
  /\ source = [adapter |-> "google-calendar",
               payloads |-> [i \in PayloadIdx |->
                               [id |-> 1, title |-> "s1",
                                updated |-> IsoString(UpdatedInstant), malformed |-> FALSE]]]
  /\ events = PinnableEventDocs
  /\ proposals = 0
  /\ ingest = IdleIngest
  /\ hist = FreshHist

PinsNext ==
  \/ \E e \in PinEventIds, pinned \in BOOLEAN : SetPin(e, pinned)
  \/ \E pinned \in BOOLEAN : SetSeriesPin("s1", pinned)
  \/ \E e \in {2, 3}, t \in {TickStep, 3 * TickStep} : RescheduleEvent("s1", e, t)
  \/ \E e \in PinEventIds, w \in Windows : RoundTripPin(e, w)
  \/ RoundTripUnpin
  \/ \E w \in Windows, pageSize \in PageSizes : PageFirst(w, pageSize)
  \/ PageNext
  \/ ClientReturn
  \/ Tick

SpecPins == PinsInit /\ [][PinsNext]_vars

\* One user who pins and unpins events through the HTTP endpoint.
PinPostsNext ==
  \/ \E e \in PinEventIds, pinned \in BOOLEAN : PinPost(e, pinned)
  \/ Respond
  \/ Tick

SpecPinPosts == PinsInit /\ [][PinPostsNext]_vars

(***************************************************************************)
(* The feed of one user over three series of one host: s1 and s2 have      *)
(* their next occurrence in the window, s2 was created before s1, and s3   *)
(* has its occurrence after the window.  Series are assigned to            *)
(* categories, the user marks bundles seen and asks for the feed and for   *)
(* the pinned events.                                                      *)
(***************************************************************************)
FeedSeriesDocs ==
  [s \in SeriesIds |->
     [exists |-> TRUE,
      upcomingOccurrences |->
        <<[eventId |-> 1,
           startTime |-> IF s = "s3" THEN 5 * KEEP_HOURS ELSE 2 * KEEP_HOURS]>>,
      createdAt |-> IF s = "s1" THEN TickStep ELSE 0,
      updatedAt |-> TickStep]]

FeedEventDocs ==
  [e \in EventIds |->
     IF e = 1 THEN [exists |-> TRUE, lastUpdatedAt |-> 0, lastFetchedAt |-> 0,
                    lastSeenAt |-> InvalidDate, seriesId |-> "s1", tagged |-> TRUE,
                    vector |-> "classifier"]
     ELSE NoDoc]

SomePins ==
  [NoPins EXCEPT !.entries[1] = [exists |-> TRUE, eventId |-> 1,
                                 eventStartTime |-> storedStartTime(1), pinnedAt |-> 0],
                 !.entries[3] = [exists |-> TRUE, eventId |-> 3,
                                 eventStartTime |-> storedStartTime(3), pinnedAt |-> 0],
                 !.updatedAt = 0]

FeedInit ==
  /\ IdleCatVars
  /\ series = FeedSeriesDocs
  /\ IdleSeriesVars
  /\ source = [adapter |-> "google-calendar",
               payloads |-> [i \in PayloadIdx |->
                               [id |-> 1, title |-> "s1",
                                updated |-> IsoString(UpdatedInstant), malformed |-> FALSE]]]
  /\ events = FeedEventDocs
  /\ proposals = 0
  /\ ingest = IdleIngest
  /\ hist = FreshHist
  /\ userPinnedEvents = SomePins
  /\ bundleStates = [id \in CategoryIds |-> NoDoc]
  /\ interactions \in InteractionHistories
  /\ request = IdleRequest
  /\ client = [pc |-> "idle", caughtUp |-> [id \in CategoryIds |-> NullVersion]]
  /\ IdleWorkVars

FeedNext ==
  \/ \E s \in {"s1", "s2"}, force \in BOOLEAN, name \in {NameYoga, NameArts} :
       AssignSeriesCall(s, force, name, "create-new")
  \/ \E c \in CategoryIds, v \in 1..MaxFeedAssigns : MarkSeen(c, v)
  \/ \E pageSize \in PageSizes, t \in PageTokens \cup {None},
        perm \in UNION {ShuffleOrders(n) : n \in 0..Cardinality(SeriesIds)} :
       FeedRequest(pageSize, t, perm)
  \/ \E w \in Windows, pageSize \in PageSizes, t \in PageTokens \cup {None} :
       PinnedEventsRequest(w, pageSize, t)
  \/ Respond

SpecFeed == FeedInit /\ [][FeedNext]_vars

(***************************************************************************)
(* One user who walks through the pages of the feed.  The store changes    *)
(* between the walks only, never during one.                               *)
(***************************************************************************)
FeedPagesInit ==
  /\ IdleCatVars
  /\ series = FeedSeriesDocs
  /\ IdleSeriesVars
  /\ source = [adapter |-> "google-calendar",
               payloads |-> [i \in PayloadIdx |->
                               [id |-> 1, title |-> "s1",
                                updated |-> IsoString(UpdatedInstant), malformed |-> FALSE]]]
  /\ events = FeedEventDocs
  /\ proposals = 0
  /\ ingest = IdleIngest
  /\ hist = FreshHist
  /\ userPinnedEvents = SomePins
  /\ bundleStates = [id \in CategoryIds |-> NoDoc]
  /\ interactions \in InteractionHistories
  /\ request = IdleRequest
  /\ client = IdleClient
  /\ IdleWorkVars

FeedPagesNext ==
  \/ \E s \in {"s1", "s2"}, force \in BOOLEAN, name \in {NameYoga, NameArts} :
       client.pc = "idle" /\ AssignSeriesCall(s, force, name, "create-new")
  \/ \E pageSize \in PageSizes,
        perm \in UNION {ShuffleOrders(n) : n \in 0..Cardinality(SeriesIds)} :
       FeedPageFirst(pageSize, perm)
  \/ \E perm \in UNION {ShuffleOrders(n) : n \in 0..Cardinality(SeriesIds)} :
       FeedPageNext(perm)
  \/ ClientReturn

SpecFeedPages == FeedPagesInit /\ [][FeedPagesNext]_vars

(***************************************************************************)
(* One user who posts interactions, one at a time and in batches, about    *)
(* event 1, series s1 and the bundle of one category.                      *)
(***************************************************************************)
InteractionsInit ==
  /\ userPinnedEvents = NoPins
  /\ bundleStates = [id \in CategoryIds |-> NoDoc]
  /\ interactions = {}
  /\ request = IdleRequest
  /\ client = IdleClient
  /\ IdleWorkVars
  /\ series = [s \in SeriesIds |-> IF s = PostedSeriesId THEN PinnableSeriesDoc ELSE NoDoc]
  /\ IdleSeriesVars
  /\ IdleCatVars
  /\ source = [adapter |-> "google-calendar",
               payloads |-> [i \in PayloadIdx |->
                               [id |-> 1, title |-> "s1",
                                updated |-> IsoString(UpdatedInstant), malformed |-> FALSE]]]
  /\ events = PinnableEventDocs
  /\ proposals = 0
  /\ ingest = IdleIngest
  /\ hist = FreshHist

InteractionsNext ==
  \/ \E input \in InteractionInputs, addOk \in BOOLEAN : PostInteraction(input, addOk)
  \/ \E list \in BatchBodies : BatchReceive(list)
  \/ \E commitOk \in BOOLEAN : BatchCommit(commitOk)
  \/ \E order \in UNION {ShuffleOrders(n) : n \in BatchLengths} : BatchPins(order)
  \/ \E order \in UNION {ShuffleOrders(n) : n \in BatchLengths} : BatchBundles(order)
  \/ Respond

SpecInteractions == InteractionsInit /\ [][InteractionsNext]_vars

(***************************************************************************)
(* One assignSeries call for the uncategorised series s1 on a store that   *)
(* holds at most one category of the host; the stored name and the name    *)
(* the classifier answers are spelled with or without a capital and with   *)
(* or without an accent.                                                   *)
(***************************************************************************)
SpelledNames == [base : {"yoga", "arts"}, cap : BOOLEAN, acc : BOOLEAN]
SpelledCategoryIds == {buildCategoryId(HostId, n) : n \in SpelledNames}
AssignedSeriesId == "s1"

\* The store with the one category `name`, which holds series s2.
StoreWith(name) ==
  [id \in SpelledCategoryIds |->
     IF id = buildCategoryId(HostId, name) THEN createCategoryDoc(name, "s2") ELSE NoDoc]

MatchInit ==
  /\ categories \in {[id \in SpelledCategoryIds |-> NoDoc]}
                      \cup {StoreWith(n) : n \in SpelledNames}
  /\ seriesCat = [s \in SeriesIds |-> None]
  /\ assign = [p \in AssignProcs |-> IdleAssign]
  /\ assignCount = 0
  /\ series = [s \in SeriesIds |-> NoDoc]
  /\ IdleSeriesVars
  /\ IdleIngestVars
  /\ userPinnedEvents = NoPins
  /\ bundleStates = [id \in CategoryIds |-> NoDoc]
  /\ interactions = {}
  /\ request \in [pc : {"classified"}, name : SpelledNames, action : ClassifierActions]
  /\ client = IdleClient
  /\ IdleWorkVars

\* assignSeries({seriesId: s1}) with the classification of the request
AssignClassified ==
  /\ request.pc = "classified"
  /\ LET after == assignSeries(categories, seriesCat, AssignedSeriesId, FALSE,
                               request.name, request.action)
     IN /\ categories' = after.categories
        /\ seriesCat' = after.seriesCat
  /\ assignCount' = assignCount + 1
  /\ request' = [pc |-> "assigned", name |-> request.name, action |-> request.action,
                 before |-> categories]
  /\ UNCHANGED assign
  /\ UNCHANGED <<userPinnedEvents, bundleStates, interactions, client>>
  /\ UNCHANGED seriesVars
  /\ UNCHANGED ingestVars
  /\ UNCHANGED workVars

MatchNext == AssignClassified

SpecMatch == MatchInit /\ [][MatchNext]_vars

(***************************************************************************)
(* Fetches of the two connectors against an upstream that answers as it    *)
(* likes.                                                                  *)
(***************************************************************************)
FetchInit ==
  /\ IdleCatVars
  /\ series = [s \in SeriesIds |-> NoDoc]
  /\ IdleSeriesVars
  /\ IdleApiVars
  /\ IdleIngestVars
  /\ IdleWorkVars

FetchNext ==
  \/ \E connector \in Connectors : FetchStart(connector)
  \/ FetchAttemptFails
  \/ \E hasNextPageToken \in BOOLEAN, reported \in 0..(MaxPages + LargePageCount) :
       FetchAttemptSucceeds(hasNextPageToken, reported)

SpecFetch == FetchInit /\ [][FetchNext]_vars

\* Concurrent saves on an empty events collection.
SavesInit ==
  /\ IdleCatVars
  /\ series = [s \in SeriesIds |-> NoDoc]
  /\ IdleSeriesVars
  /\ IdleIngestVars
  /\ IdleApiVars
  /\ IdleWorkVars

SavesNext ==
  \/ \E p \in SaveProcs, eventId \in EventIds, startTime \in StartTimes, preRead \in BOOLEAN :
       SaveStart(p, eventId, startTime, preRead)
  \/ \E p \in SaveProcs : SaveGet(p)
  \/ \E p \in SaveProcs : SaveSet(p)

SpecSaves == SavesInit /\ [][SavesNext]_vars

\* Chunked ingests one after the other.
ChunksInit ==
  /\ IdleCatVars
  /\ series = [s \in SeriesIds |-> NoDoc]
  /\ IdleSeriesVars
  /\ IdleIngestVars
  /\ IdleApiVars
  /\ IdleWorkVars

ChunksNext ==
  \/ \E kind \in SourceKinds, day \in 0..MaxStartDay, offsetMinutes \in ZoneOffsetMinutes,
        totalSpanDays \in 1..MaxSpanDays, chunkSize \in 0..(MaxSpanDays + 1) :
       ChunksStart(kind, day, offsetMinutes, totalSpanDays, chunkSize)
  \/ ChunkIngest

SpecChunks == ChunksInit /\ [][ChunksNext]_vars

\* Host contexts derived one event after the other.
HostInit ==
  /\ IdleCatVars
  /\ series = [s \in SeriesIds |-> NoDoc]
  /\ IdleSeriesVars
  /\ IdleIngestVars
  /\ IdleApiVars
  /\ IdleWorkVars

HostNext ==
  \E adapter \in HostAdapters, organizer \in OrganizerInputs, venue \in VenueInputs,
     label \in LabelInputs, sourceId \in SourceIdInputs, sourceEventId \in SourceEventIdInputs :
    DeriveHost(adapter, organizer, venue, label, sourceId, sourceEventId)

SpecHost == HostInit /\ [][HostNext]_vars

\* Concurrent recordOccurrence calls on an empty tagProposals collection.
ProposalsInit ==
  /\ IdleCatVars
  /\ series = [s \in SeriesIds |-> NoDoc]
  /\ IdleSeriesVars
  /\ IdleIngestVars
  /\ IdleApiVars
  /\ IdleWorkVars

ProposalsNext ==
  \/ \E p \in RecordProcs, slug \in ProposalSlugs, sourceId \in ProposalSourceIds :
       RecordRead(p, slug, sourceId)
  \/ \E p \in RecordProcs : RecordCommit(p)

SpecProposals == ProposalsInit /\ [][ProposalsNext]_vars

(***************************************************************************)
(* Properties of the category store                                        *)
(***************************************************************************)
AllAssignsIdle == \A p \in AssignProcs : assign[p].pc = "idle"

ExistingCategories == {id \in CategoryIds : categories[id].exists}

LoggedSeries(c) == UNION {c.changeLog[i].addedSeriesIds : i \in 1..Len(c.changeLog)}

GapFree(c) ==
  /\ \A i \in 1..(Len(c.changeLog) - 1) :
       c.changeLog[i + 1].version = c.changeLog[i].version + 1
  /\ Len(c.changeLog) > 0 /\ c.changeLog[Len(c.changeLog)].version = c.version

\* C1: once concurrent assignments of distinct series have all returned,
\* every series that was assigned to a category is in that category's
\* seriesIds and has a changeLog entry of its own, and the changeLog
\* versions form one gap-free increasing sequence ending at the version.
C1_NoAdditionLost ==
  AllAssignsIdle =>
    \A s \in SeriesIds :
      seriesCat[s] # None =>
        LET c == categories[seriesCat[s].categoryId]
        IN /\ c.exists
           /\ s \in c.seriesIds
           /\ s \in LoggedSeries(c)
           /\ GapFree(c)

\* The number of changeLog entries that add a series id not added by an
\* earlier entry of the same changeLog.
FirstOccurrenceCount(c) ==
  Cardinality({i \in 1..Len(c.changeLog) :
                 /\ c.changeLog[i].addedSeriesIds # {}
                 /\ \A j \in 1..(i - 1) :
                      c.changeLog[j].addedSeriesIds \cap c.changeLog[i].addedSeriesIds = {}})

\* C2 as stated: version = 1 + the number of changeLog entries with a
\* non-empty addedSeriesIds, each series id counted at its first occurrence.
C2_VersionIsOnePlusFirstOccurrences ==
  \A id \in ExistingCategories :
    categories[id].version = 1 + FirstOccurrenceCount(categories[id])

\* C2 as amended: the version counts every changeLog entry ever appended
\* (the creation entry included, a re-added series counted again): the
\* changeLog holds the last min(version, CHANGE_LOG_LIMIT) entries, their
\* versions are consecutive and the newest entry carries the version.
C2_VersionCountsEntries ==
  \A id \in ExistingCategories :
    LET c == categories[id]
    IN /\ Len(c.changeLog) = Min(c.version, CHANGE_LOG_LIMIT)
       /\ \A i \in 1..Len(c.changeLog) :
            c.changeLog[i].version = c.version - Len(c.changeLog) + i

\* A category whose changeLog has been truncated by an addition.
C2_Witness ==
  \E id \in ExistingCategories :
    /\ categories[id].version = CHANGE_LOG_LIMIT + 1
    /\ Len(categories[id].changeLog) = CHANGE_LOG_LIMIT

\* C3 as stated: every member series of a category appears in the
\* addedSeriesIds of some changeLog entry of that category.
C3_MembersAreLogged ==
  \A id \in ExistingCategories :
    categories[id].seriesIds \subseteq LoggedSeries(categories[id])

\* C3 as amended: every member series of a category whose version is at
\* most CHANGE_LOG_LIMIT (no changeLog entry truncated yet) appears in
\* the addedSeriesIds of some changeLog entry of that category.
C3_MembersAreLoggedUntilTruncation ==
  \A id \in ExistingCategories :
    categories[id].version <= CHANGE_LOG_LIMIT =>
      categories[id].seriesIds \subseteq LoggedSeries(categories[id])

\* A category created in this run to which a second series has been added.
C3_Witness ==
  \E id \in ExistingCategories :
    /\ categories[id].version = 2
    /\ Cardinality(categories[id].seriesIds) = 2

\* C4: the version of a category is at least 1 and no step decreases it.
C4_VersionMonotonic ==
  [][\A id \in CategoryIds :
       categories[id].exists =>
         /\ categories[id].version >= 1
         /\ categories'[id].exists
         /\ categories'[id].version >= categories[id].version]_vars

(***************************************************************************)
(* Properties of the series store                                          *)
(***************************************************************************)
AllAttachesIdle == \A p \in AttachProcs : attach[p].pc = "idle"

ExistingSeries == {s \in AttachTargets : series[s].exists}

StoredOccurrences(s) ==
  {series[s].upcomingOccurrences[i] : i \in 1..Len(series[s].upcomingOccurrences)}

\* C5: in every series document written by attachEvent, every stored
\* occurrence has a startTime no earlier than 24 hours before the time of
\* that write.
C5_OccurrencesWithinKeepWindow ==
  \A s \in ExistingSeries :
    \A occ \in StoredOccurrences(s) :
      occ.startTime >= series[s].updatedAt - KEEP_HOURS

\* C6: the stored occurrences are in ascending startTime order and
\* occurrences of equal startTime are in ascending eventId order.
C6_SortedWithEventIdTieBreak ==
  \A s \in ExistingSeries :
    LET occs == series[s].upcomingOccurrences
    IN \A i \in 1..(Len(occs) - 1) :
         \/ occs[i].startTime < occs[i + 1].startTime
         \/ /\ occs[i].startTime = occs[i + 1].startTime
            /\ occs[i].eventId < occs[i + 1].eventId

\* C7: attachEvent calls on one series take effect one after another: the
\* occurrence of the last committed attach of every event is stored in the
\* series, unless it started more than 24 hours before the last write or
\* was cut off by the occurrence limit, and no event is stored twice.
C7_AttachesSerialize ==
  \A s \in AttachTargets :
    /\ \A e \in EventIds :
         committedOcc[s][e] # None =>
           /\ series[s].exists
           /\ \/ committedOcc[s][e] \in StoredOccurrences(s)
              \/ committedOcc[s][e].startTime < series[s].updatedAt - KEEP_HOURS
              \/ <<s, e>> \in cutByLimit
    /\ series[s].exists =>
         \A i, j \in 1..Len(series[s].upcomingOccurrences) :
           series[s].upcomingOccurrences[i].eventId = series[s].upcomingOccurrences[j].eventId
             => i = j

\* Two attachEvent calls that overlapped, one of them retried after a
\* failed commit, have both returned and both occurrences are stored.
C7_Witness ==
  /\ AllAttachesIdle
  /\ conflicts > 0
  /\ \E s \in AttachTargets :
       Cardinality({e \in EventIds : committedOcc[s][e] \in StoredOccurrences(s)}) >= 2

(***************************************************************************)
(* Properties of ingestSource                                              *)
(***************************************************************************)
\* The second run over the source has returned and was not forced.
SecondRunDone == ingest.no = 2 /\ ingest.phase = "idle" /\ ~ingest.forceRefresh

\* C8 as stated: the second run over an unchanged source of NumPayloads
\* payloads, without forceRefresh, reports created = 0 and
\* updated = NumPayloads.
C8_SecondRunAllUpdated ==
  SecondRunDone => ingest.created = 0 /\ ingest.updated = NumPayloads

\* C8 as amended: the second run reports
\* updated = NumPayloads - skipped - created, and creates at most as many
\* events as the first run skipped entries; so created = 0 and
\* updated = NumPayloads when neither run skips an entry.
C8_SecondRunCounts ==
  SecondRunDone =>
    /\ ingest.created <= hist.firstRun.skipped
    /\ ingest.updated = NumPayloads - ingest.skipped - ingest.created

\* Both runs have skipped nothing: the first created every event, the
\* second reports them all as updated and has reused a classification.
C8_Witness ==
  /\ SecondRunDone
  /\ hist.firstRun.skipped = 0 /\ hist.firstRun.created >= 1
  /\ ingest.created = 0 /\ ingest.updated = NumPayloads
  /\ \E i \in PayloadIdx : hist.mutations[i] = {"touchEvent"}

\* C9: during a second pass without forceRefresh, what is written for an
\* event that the stores already hold is what touchEvent writes: no tag
\* proposal is counted, no series document and no category is written,
\* the event is not saved anew.
C9_SecondPassOnlyTouches ==
  (ingest.no = 2 /\ ~ingest.forceRefresh) =>
    \A i \in PayloadIdx :
      (ingest.prepared[i] # None /\ ingest.prepared[i].existingSnapshot # None)
        => hist.mutations[i] \subseteq {"touchEvent"}

\* A run has processed all its entries.
RunDone == ingest.no >= 1 /\ ingest.phase \in {"finish", "idle"}

C11_Phase3FailuresStillWritten ==
  RunDone =>
    \A i \in PayloadIdx :
      (/\ hist.thrown[i] \cap {"classify", "attachEvent", "assignSeries"} # {}
       /\ ~timestampThrows(ingest.prepared[i].normalized.lastUpdatedAt))
        => /\ hist.counted[i] \in {<<"created">>, <<"updated">>}
           /\ "saveEvent" \in hist.mutations[i]

\* C11 as amended: an entry for which the series attach or the category
\* assignment failed in phase 3 has its event document written and is
\* counted as created or updated (unless saveEvent itself throws on the
\* entry's dates); an entry for which the tag classifier failed in phase 3
\* is counted as skipped and nothing is written for it.
C11_SeriesFailuresStillWritten ==
  RunDone =>
    \A i \in PayloadIdx :
      /\ (/\ hist.thrown[i] \cap {"attachEvent", "assignSeries"} # {}
          /\ ~timestampThrows(ingest.prepared[i].normalized.lastUpdatedAt))
           => /\ hist.counted[i] \in {<<"created">>, <<"updated">>}
              /\ "saveEvent" \in hist.mutations[i]
      /\ "classify" \in hist.thrown[i]
           => hist.counted[i] = <<"skipped">> /\ hist.mutations[i] = {}

\* A run in which the series attach failed for an entry that was created.
C11_Witness ==
  /\ RunDone
  /\ \E i \in PayloadIdx :
       /\ hist.thrown[i] = {"attachEvent"}
       /\ hist.counted[i] = <<"created">>
       /\ events[ingest.prepared[i].normalized.id].exists

(***************************************************************************)
(* Properties of the pinned events                                         *)
(***************************************************************************)
EventIdsOf(entries) == {entries[i].eventId : i \in 1..Len(entries)}

\* The events with a pinned entry in the window: pinned themselves, or an
\* occurrence of a pinned series.
InWindowPinnedIds(window) ==
  {e \in PinEventIds :
     /\ userPinnedEvents.entries[e].exists
     /\ userPinnedEvents.entries[e].eventStartTime >= window.start
     /\ userPinnedEvents.entries[e].eventStartTime < window.end}
  \cup
  UNION {{series[s].upcomingOccurrences[i].eventId :
            i \in {k \in 1..Len(series[s].upcomingOccurrences) :
                     /\ series[s].upcomingOccurrences[k].startTime >= window.start
                     /\ series[s].upcomingOccurrences[k].startTime < window.end}} :
         s \in {x \in SeriesIds : userPinnedEvents.series[x].exists /\ series[x].exists}}

\* a comes before b in (startTime ascending, pinnedAt descending, eventId
\* ascending) order
ComesBefore(a, b) ==
  \/ a.startTime < b.startTime
  \/ a.startTime = b.startTime /\ a.pinnedAt > b.pinnedAt
  \/ a.startTime = b.startTime /\ a.pinnedAt = b.pinnedAt /\ a.eventId < b.eventId

\* C12 (as stated): from any starting state, pinning an event and then
\* unpinning it leaves the events of getPinnedEvents as they were before.
C12_RoundTripIdentical ==
  client.pc = "unpinned" => client.after.events = client.before.events

\* C12 (amended): pinning an event and then unpinning it leaves the events
\* of getPinnedEvents as they were when the event had no entry of its own
\* before; when it had one, that entry is gone afterwards and the entries of
\* the other events are as before.
C12_RoundTripWhenNotPinned ==
  client.pc = "unpinned" =>
    LET before == client.before.events
        after == client.after.events
        others(entries) == SelectSeq(entries, LAMBDA x : x.eventId # client.eventId)
    IN /\ ~client.wasPinned => after = before
       /\ client.wasPinned =>
            /\ \A i \in 1..Len(after) : after[i].eventId = client.eventId => after[i].derived
            /\ others(after) = others(before)
       /\ ~userPinnedEvents.entries[client.eventId].exists

C12_Witness ==
  /\ client.pc = "unpinned"
  /\ ~client.wasPinned
  /\ client.eventId \in StoredEventIds
  /\ client.eventId \notin EventIdsOf(client.before.events)
  /\ Len(client.before.events) >= 2
  /\ client.after.updatedAt > client.before.updatedAt

\* C13: for a fixed pinned state, window and page size, the pages read from
\* no token on hold, together, every pinned entry of the window once, in
\* (startTime ascending, pinnedAt descending, eventId ascending) order, and
\* a page carries a nextPageToken exactly when entries remain after it.
C13_PagesCoverPinnedInOrder ==
  client.pc = "paging" =>
    LET pages == client.pages
        pinnedIds == InWindowPinnedIds(client.window)
    IN /\ (client.nextPageToken # None) <=> (Len(pages) < Cardinality(pinnedIds))
       /\ \A i, j \in 1..Len(pages) : i < j => ComesBefore(pages[i], pages[j])
       /\ \A i, j \in 1..Len(pages) : i # j => pages[i].eventId # pages[j].eventId
       /\ EventIdsOf(pages) \subseteq pinnedIds
       /\ client.nextPageToken = None => EventIdsOf(pages) = pinnedIds

C13_Witness ==
  /\ client.pc = "paging"
  /\ client.pageSize = 1
  /\ client.nextPageToken = None
  /\ Len(client.pages) = 3
  /\ client.pages[1].startTime = client.pages[2].startTime
  /\ client.pages[1].pinnedAt > client.pages[2].pinnedAt
  /\ client.pages[3].derived

(***************************************************************************)
(* Properties of the feed                                                  *)
(***************************************************************************)
FeedAnswered ==
  request.pc = "answered" /\ request.endpoint = "feed" /\ request.response.status = 200

\* The bundles of category c in the answered page of the feed.
BundlesOf(c) ==
  {request.response.events[i].bundle :
     i \in {k \in 1..Len(request.response.events) :
              request.response.events[k].id = BundleContent(c)}}

\* The series added to category c in changeLog entries after version v.
LoggedSince(c, v) ==
  UNION {categories[c].changeLog[i].addedSeriesIds :
           i \in {k \in 1..Len(categories[c].changeLog) : categories[c].changeLog[k].version > v}}

C15_DisplaySeriesAreNewSeries ==
  FeedAnswered =>
    \A c \in CategoryIds : \A b \in BundlesOf(c) :
      b.lastSeenVersion # NullVersion =>
        /\ b.newSeriesIds = LoggedSince(c, b.lastSeenVersion)
        /\ b.displaySeries = b.newSeriesIds

\* C15 (amended): the bundle shown to a user who has seen the category
\* displays those series added in changeLog entries above the version last
\* seen that are still in the collection of the bundle, and the whole
\* collection when none of them is; a first-time user is shown the whole
\* collection.
C15_DisplaySeriesAreNewSeriesInCollection ==
  FeedAnswered =>
    \A c \in CategoryIds : \A b \in BundlesOf(c) :
      LET new == LoggedSince(c, b.lastSeenVersion)
      IN /\ b.displaySeries # {}
         /\ b.lastSeenVersion = NullVersion => b.displaySeries = b.seriesIds
         /\ b.lastSeenVersion # NullVersion =>
              /\ b.newSeriesIds = new
              /\ b.displaySeries =
                   IF b.seriesIds \cap new # {} THEN b.seriesIds \cap new ELSE b.seriesIds

C15_Witness ==
  /\ FeedAnswered
  /\ \E c \in CategoryIds : \E b \in BundlesOf(c) :
       /\ b.lastSeenVersion # NullVersion
       /\ b.displaySeries = b.newSeriesIds
       /\ b.displaySeries # b.seriesIds

\* C18: for a user with fewer than 20 interactions or without an embedding,
\* the feed lists the candidates by ascending createdAt, all scores zero.
C18_ColdStartChronologicalZeroScores ==
  (/\ FeedAnswered
   /\ \/ Cardinality(userInteractions(interactions, UserId)) < PERSONALIZATION_THRESHOLD
      \/ ~hasUserEmbedding(interactions, events, UserId))
    => LET page == request.response.events
       IN /\ \A i, j \in 1..Len(page) : i < j => page[i].createdAt <= page[j].createdAt
          /\ \A i \in 1..Len(page) : page[i].score = ZeroScore

\* C19: a page token that does not decode to a non-negative integer is
\* answered with status 400 and the error "Invalid page token", by the feed
\* and by the pinned events.
C19_InvalidTokenRejected ==
  (/\ request.pc = "answered"
   /\ request.pageToken # None
   /\ request.pageToken.kind # "digits")
    => /\ request.response.status = 400
       /\ request.response.error = "Invalid page token"

(***************************************************************************)
(* Properties of the interaction endpoints                                 *)
(***************************************************************************)
\* C16: every persisted interaction has passed validation: non-empty
\* userId, contentId and action, a known contentType, a known action, a
\* position >= 0 and a known timeOfDay and dayOfWeek.
C16_PersistedInteractionsAreValid ==
  \A d \in interactions :
    /\ d.userId # "" /\ d.contentId # None /\ d.action # ""
    /\ d.contentType \in VALID_CONTENT_TYPES
    /\ d.action \in VALID_ACTIONS
    /\ d.position >= 0
    /\ d.timeOfDay \in VALID_TIME_OF_DAY
    /\ d.dayOfWeek \in VALID_DAY_OF_WEEK

\* C17: while a batch request is served, the pinned events and the bundle
\* states change only in steps taken after every write of the batch has
\* been stored; a batch that has not committed changes neither.
C17_SideEffectsOnlyAfterCommit ==
  [][(/\ request.pc # "idle"
      /\ request.endpoint = "batch"
      /\ <<userPinnedEvents, bundleStates>>' # <<userPinnedEvents, bundleStates>>)
       => (/\ request.pc \in {"pins", "bundles"}
           /\ \A i \in 1..Len(request.writes) : request.writes[i] \in interactions)]_vars

\* A batch with a pin update and a bundle update has committed and has been
\* answered, and both side effects have been applied.
C17_Witness ==
  /\ request.pc = "answered"
  /\ request.endpoint = "batch"
  /\ request.response.status = 201
  /\ Len(request.pinUpdates) > 0
  /\ Len(request.bundleUpdates) > 0
  /\ userPinnedEvents # NoPins
  /\ bundleStates[PostedCategoryId].exists

(***************************************************************************)
(* Properties of the name match of assignSeries                            *)
(***************************************************************************)
\* C20: whether an assignment is a reuse is decided by a case-insensitive,
\* accent-insensitive match of the classifier's name against the existing
\* categories, whatever the declared action: with a matching name the
\* series is assigned to the existing category and none is created, with a
\* non-matching name it is assigned to a category created by the call.
C20_MatchDecidesReuse ==
  request.pc = "assigned" =>
    LET matches == {id \in DOMAIN request.before :
                      /\ request.before[id].exists
                      /\ request.before[id].name.base = request.name.base}
        assigned == seriesCat[AssignedSeriesId]
    IN IF matches # {}
         THEN /\ assigned # None
              /\ assigned.categoryId \in matches
              /\ \A id \in DOMAIN categories :
                   categories[id].exists <=> request.before[id].exists
         ELSE /\ assigned # None
              /\ ~request.before[assigned.categoryId].exists
              /\ categories[assigned.categoryId].exists

(***************************************************************************)
(* Properties of the connectors                                            *)
(***************************************************************************)
\* C21: a fetch of any connector attempts each page request at most 3
\* times and requests at most 25 pages, whatever the upstream returns.
C21_FetchBounded ==
  fetch.attempt <= MAX_ATTEMPTS /\ fetch.page <= PAGE_GUARD

(***************************************************************************)
(* Further properties of the category store                                *)
(***************************************************************************)
\* C22: a commit of addSeriesToCategory for a series that was not in
\* seriesIds raises the version by exactly 1 and appends exactly one
\* changeLog entry, of the new version and the series (the log keeping its
\* last CHANGE_LOG_LIMIT entries); for a series that already was in
\* seriesIds it leaves version and changeLog as they were.
C22_AddBumpsVersionOncePerNewMember ==
  [][\A p \in AssignProcs :
       (assign[p].pc = "txcommit" /\ assign'[p].pc \in {"remove", "setseries"}) =>
         LET id == assign[p].categoryId
             s == assign[p].seriesId
             before == categories[id]
             after == categories'[id]
         IN /\ s \in after.seriesIds
            /\ IF s \in before.seriesIds
                 THEN /\ after.version = before.version
                      /\ after.changeLog = before.changeLog
                 ELSE /\ after.version = before.version + 1
                      /\ after.changeLog =
                           SliceLast(Append(before.changeLog,
                                            [version |-> before.version + 1,
                                             addedSeriesIds |-> {s}]),
                                     CHANGE_LOG_LIMIT)]_vars

\* An addSeriesToCategory has just committed the addition of a new member
\* to a category that existed before the call.
C22_Witness ==
  \E p \in AssignProcs :
    /\ assign[p].pc \in {"remove", "setseries"}
    /\ categories[assign[p].categoryId].version >= 2
    /\ LET log == categories[assign[p].categoryId].changeLog
       IN log[Len(log)] = [version |-> categories[assign[p].categoryId].version,
                           addedSeriesIds |-> {assign[p].seriesId}]

C24_NoDerivedEntryOfPinnedEvent ==
  client.pc = "paging" =>
    \A i \in 1..Len(client.pages) :
      client.pages[i].derived => ~userPinnedEvents.entries[client.pages[i].eventId].exists

\* C29: no reader of a category document observes a version greater than
\* the largest version recorded in its changeLog, in any interleaving of
\* the writers: every stored document has a changeLog entry that carries a
\* version at least its version.
C29_VersionNotAboveChangeLog ==
  \A id \in DOMAIN categories :
    categories[id].exists =>
      \E i \in 1..Len(categories[id].changeLog) :
        categories[id].changeLog[i].version >= categories[id].version

\* A writer has committed an addition between the read and the commit of
\* another writer's transaction on the same category.
C29_Witness ==
  \E p \in AssignProcs :
    /\ assign[p].pc = "txcommit"
    /\ categories[assign[p].categoryId].exists
    /\ categories[assign[p].categoryId].version > assign[p].snapshot.version
    /\ Len(categories[assign[p].categoryId].changeLog) > 0

\* C31: once concurrent assignSeries calls have all returned, every series
\* whose document records categoryId = c is contained in c.seriesIds.
C31_RecordedCategoryHoldsSeries ==
  AllAssignsIdle =>
    \A s \in SeriesIds :
      seriesCat[s] # None =>
        /\ categories[seriesCat[s].categoryId].exists
        /\ s \in categories[seriesCat[s].categoryId].seriesIds

(***************************************************************************)
(* Further properties of the series store                                  *)
(***************************************************************************)
\* C32: an attachEvent call that returns reports created = true only if
\* the transaction attempt it committed created the series document.
C32_CreatedOnlyByCreatingAttempt ==
  [][\A p \in AttachProcs :
       (attach[p].pc = "commit" /\ attach'[p].pc = "idle" /\ attach[p].created)
         => ~attach[p].snapshot.exists]_vars

\* The event ids of the occurrences a series document holds.
occurrenceEventIds(doc) ==
  {doc.upcomingOccurrences[i].eventId : i \in 1..Len(doc.upcomingOccurrences)}

\* The occurrences of other events that the body of an attach keeps from its
\* snapshot and that do not start after the attached event.
notLaterOthers(a) ==
  IF ~a.snapshot.exists THEN <<>>
  ELSE SelectSeq(sanitizeOccurrences(a.snapshot.upcomingOccurrences, a.txNow),
                 LAMBDA occ : occ.eventId # a.event.id /\ occ.startTime <= a.event.startTime)

\* C33 as stated: right after the attach of an event with a start time
\* commits, the series holds an occurrence of that event, whatever the
\* start times of the occurrences already stored.
C33_AttachedEventHasOccurrence ==
  [][\A p \in AttachProcs :
       (/\ attach[p].pc = "commit" /\ attach'[p].pc = "idle"
        /\ buildOccurrence(attach[p].event) # None)
       => attach[p].event.id \in occurrenceEventIds(series'[attach[p].seriesId])]_vars

\* C33, amended: right after the attach commits, the series holds an
\* occurrence of the event exactly when fewer than OCCURRENCE_LIMIT kept
\* occurrences of other events start at or before the event's start time.
C33_AttachedEventWithinLimitHasOccurrence ==
  [][\A p \in AttachProcs :
       (/\ attach[p].pc = "commit" /\ attach'[p].pc = "idle"
        /\ buildOccurrence(attach[p].event) # None)
       => (attach[p].event.id \in occurrenceEventIds(series'[attach[p].seriesId])
             <=> Len(notLaterOthers(attach[p])) < OCCURRENCE_LIMIT)]_vars

\* A series holds OCCURRENCE_LIMIT occurrences, one of them of an attached
\* event, and the attach of another event has been cut off by the limit.
C33_Witness ==
  \E s \in ExistingSeries :
    /\ Len(series[s].upcomingOccurrences) = OCCURRENCE_LIMIT
    /\ \E e, cut \in EventIds :
         /\ e # cut
         /\ e \in occurrenceEventIds(series[s])
         /\ cut \notin occurrenceEventIds(series[s])
         /\ <<s, cut>> \in cutByLimit

\* C34: after any sequence of ingest runs, each event has an occurrence in
\* at most one series, the series named by the event's own seriesId.
C34_OccurrenceOnlyInOwnSeries ==
  ingest.phase = "idle" =>
    \A e \in EventIds, s \in SeriesIds :
      (series[s].exists /\ e \in occurrenceEventIds(series[s]))
        => (events[e].exists /\ events[e].seriesId = s)

(***************************************************************************)
(* Further properties of the ingest                                        *)
(***************************************************************************)
\* C39: when a run of ingestSource returns, the number of payloads fetched
\* is the sum of its counters created, updated and skipped.
C39_FetchedIsSumOfCounters ==
  RunDone => fetched = ingest.created + ingest.updated + ingest.skipped

\* A run that returns after it skipped one payload and created or updated
\* the event of another.
C39_Witness ==
  /\ RunDone
  /\ ingest.skipped >= 1
  /\ ingest.created + ingest.updated >= 1

(***************************************************************************)
(* Further properties of the interaction endpoints                         *)
(***************************************************************************)
\* C35: a POST /interactions request answered with a 4xx status leaves the
\* store unchanged: no interaction document is added and neither the pinned
\* events nor the bundle states change.
C35_RejectedInteractionChangesNothing ==
  [][(/\ request.pc = "idle"
      /\ request'.pc = "answered"
      /\ request'.endpoint = "single"
      /\ request'.response.status >= 400 /\ request'.response.status < 500)
     => /\ interactions' = interactions
        /\ userPinnedEvents' = userPinnedEvents
        /\ bundleStates' = bundleStates]_vars

\* What a store of pinned events says is pinned.
pinnedState(store) ==
  [events |-> {e \in DOMAIN store.entries : store.entries[e].exists},
   series |-> {x \in DOMAIN store.series : store.series[x].exists}]

\* C36: after the pin toggles of a batch have been applied, what is pinned
\* is what applying the toggles one by one in list order gives.
C36_BatchTogglesApplyInListOrder ==
  [][(request.pc = "pins" /\ request'.pc = "bundles")
     => pinnedState(userPinnedEvents')
          = pinnedState(applyPinUpdates(userPinnedEvents, series, request.pinUpdates,
                                        [i \in 1..Len(request.pinUpdates) |-> i], now))]_vars

\* C37: a user's lastSeenVersion of a category never decreases and never
\* exceeds the version the category has.
C37_LastSeenVersionMonotoneAndBounded ==
  [][\A id \in CategoryIds :
       /\ bundleStates[id].exists
            => /\ bundleStates'[id].exists
               /\ bundleStates'[id].lastSeenVersion >= bundleStates[id].lastSeenVersion
       /\ bundleStates'[id].exists
            => /\ categories'[id].exists
               /\ bundleStates'[id].lastSeenVersion <= categories'[id].version]_vars

\* C38: with the store unchanged, a walk through the pages of the feed,
\* from the request without a token to the answer without nextPageToken,
\* returns every candidate item exactly once.
C38_FeedWalkReturnsEachCandidateOnce ==
  (client.pc = "paging" /\ client.nextPageToken = None) =>
    LET candidates == buildBundles(seriesCandidates(series, FeedWindow), categories,
                                   seriesCat, bundleStates, series, FeedWindow)
    IN /\ Len(client.pages) = Len(candidates)
       /\ \A i \in 1..Len(candidates) :
            Cardinality({j \in 1..Len(client.pages) :
                           client.pages[j].id = candidates[i].id}) = 1

\* C40: a request to pin an event that does not exist leaves the pinned
\* state of the user, updatedAt included, as it was, and its answer does
\* not say that the event is pinned.
C40_PinOfMissingEventNotReported ==
  [][(/\ request.pc = "idle"
      /\ request'.pc = "answered"
      /\ request'.endpoint = "pin"
      /\ request'.pinned
      /\ fetchEventMetadata(request'.eventId) = None)
     => /\ userPinnedEvents' = userPinnedEvents
        /\ ~(request'.response.status = 200 /\ request'.response.pinned)]_vars

C26_MovedSeriesLeavesOldJoinsNew ==
  [][\A p \in AssignProcs :
       (/\ assign[p].pc = "setseries"
        /\ assign'[p].pc = "idle"
        /\ assign[p].existingCategoryId # None
        /\ assign[p].existingCategoryId # assign[p].categoryId)
       => LET s == assign[p].seriesId
              c1 == categories'[assign[p].existingCategoryId]
              c2 == categories'[assign[p].categoryId]
          IN /\ ~(c1.exists /\ s \in c1.seriesIds)
             /\ c2.exists /\ s \in c2.seriesIds]_vars

(***************************************************************************)
(* Properties of the host context                                          *)
(***************************************************************************)
\* C27: two events with the same organizer from the same source (the same
\* adapter, label, venue and sourceId) get the same hostIdSeed, whatever
\* their sourceEventIds.
C27_SeedDependsOnOrganizerAndSource ==
  [][(/\ call.fn = "hostContext"
      /\ call'.fn = "hostContext"
      /\ call'.adapter = call.adapter
      /\ call'.organizer = call.organizer
      /\ call'.venue = call.venue
      /\ call'.label = call.label
      /\ call'.sourceId = call.sourceId)
     => call'.hostContext.hostIdSeed = call.hostContext.hostIdSeed]_vars

(***************************************************************************)
(* Properties of the concurrent saves                                      *)
(***************************************************************************)
\* C28: of the concurrent saves of one event id that have returned, at most
\* one reports 'created'.
C28_AtMostOneSaveReportsCreated ==
  \A p, q \in SaveProcs :
    (/\ p # q
     /\ save[p].pc = "done" /\ save[q].pc = "done"
     /\ save[p].eventId = save[q].eventId)
    => ~(save[p].result = "created" /\ save[q].result = "created")

(***************************************************************************)
(* Properties of the chunked ingest                                        *)
(***************************************************************************)
\* The windows are half-open, non-empty, contiguous and cover exactly
\* [windowStart, windowStart + totalSpanDays).
ChunksPartitionWindow ==
  LET w == call.windows
  IN /\ Len(w) >= 1
     /\ w[1].start = call.windowStart
     /\ w[Len(w)].end = addUtcDays(call.windowStart, call.totalSpanDays)
     /\ \A i \in 1..Len(w) : w[i].start < w[i].end
     /\ \A i \in 1..(Len(w) - 1) : w[i].end = w[i + 1].start

\* The ranges requested from the source for two chunks share no instant.
RequestsDisjoint ==
  \A i, j \in 1..Len(call.requests) :
    i < j => call.requests[i].end <= call.requests[j].start

\* C30: for a chunk size of at least 1, the sub-windows a chunked ingest has
\* ingested are half-open, disjoint and contiguous and cover exactly
\* [windowStart, windowStart + totalSpanDays), and what is requested from
\* the source for two different chunks does not overlap.
C30_ChunksPartitionAndRequestsDisjoint ==
  (call.fn = "chunks" /\ call.pc = "done" /\ call.chunkSize >= 1)
    => (ChunksPartitionWindow /\ RequestsDisjoint)

====
